---- MODULE Spec2Model ----
(***************************************************************************)
(* Markdown <-> database sync engine of personal-goodreads:                *)
(*   services/markdown_sync_service.py  (document model, codec, hasher,    *)
(*                                       PushToFile / PullFromFile)        *)
(*   services/file_watcher_service.py   (debounced file watch)             *)
(*   routes/admin.py, cli_commands.py   (conflict inventory)               *)
(*                                                                         *)
(* Python's None is the empty tuple, a present value v is <<v>>.  Scalar   *)
(* column values are strings; free text (review, notes, one highlight) is  *)
(* a sequence of tokens: ordinary characters, " ", "\n", "-", and one      *)
(* token for each of the three section headings.                           *)
(***************************************************************************)
EXTENDS Integers, Sequences, FiniteSets, TLC

VARIABLES
  books,      \* table books with its 1:1 sub-records: Seq of Book, index = id
  shelves,    \* table shelves: Seq of shelf names, index = id
  files,      \* the books directory: file name -> None | Some(file text)
  now,        \* the clock read by datetime.utcnow()
  last,       \* the most recent sync call and what it returned
  prev,       \* the sync call before it
  nops,       \* number of file edits and sync calls so far
  \* the file system under _write_markdown_file, one write step at a time
  dir,        \* directory entries: path -> inode number, 0 when absent
  inode,      \* inode number -> the chunks the file holds
  writer,     \* the PushToFile call each request thread is executing
  reader,     \* a reader of a document file: its open inode, what it read
  installed,  \* texts whose rename into place succeeded
  nwrites,    \* number of PushToFile calls started
  \* the debounced watch of file_watcher_service.py
  time,       \* time.time(), in units of the worker's sleep
  pending,    \* pending_changes: path -> None | Some(last event time)
  worker,     \* debounce_thread and the locals of _debounce_worker
  sched,      \* the path _schedule_sync is between recording and starting
  stop_event, \* the handler's stop_event
  burst,      \* per path: the events of the current burst and its pulls
  wpull,      \* the watcher's most recent PullFromFile call
  nevents,    \* number of file events delivered
  stopper,    \* FileWatcherService.stop: where it is, what it found
  \* the codec and the hasher applied to documents
  docs,       \* the documents they are applied to
  written,    \* the text _write_markdown_file builds for docs[1]
  parsed,     \* what _parse_markdown_file makes of that text
  hashes,     \* _calculate_sync_hash of each of docs
  \* a request's PushToFile and the watcher's PullFromFile of one book
  race,       \* where each of the two calls is, and what it holds
  \* FileWatcherService and init_file_watcher
  app         \* the global watcher, its observer, the requests served

(***************************************************************************)
(* Bounds of the model.                                                    *)
(***************************************************************************)
MaxOps == 3
MaxClock == 1
MaxBooks == 2

None == <<>>
Some(v) == <<v>>

Max(S) == CHOOSE m \in S : \A x \in S : x <= m
Min(S) == CHOOSE m \in S : \A x \in S : m <= x

(***************************************************************************)
(* Text: str.strip / str.rstrip / str.find / str.split('\n')               *)
(***************************************************************************)
WS == {" ", "\n"}
HReview == "# Review"
HHighlights == "# Highlights"
HNotes == "# Private Notes"

RStrip(t) ==
  LET keep == {i \in 1..Len(t) : t[i] \notin WS}
  IN  IF keep = {} THEN <<>> ELSE SubSeq(t, 1, Max(keep))

Strip(t) ==
  LET keep == {i \in 1..Len(t) : t[i] \notin WS}
  IN  IF keep = {} THEN <<>> ELSE SubSeq(t, Min(keep), Max(keep))

\* body.find(header): 1-based position of the first occurrence, 0 for -1
Find(body, header) ==
  LET at == {i \in 1..Len(body) : body[i] = header}
  IN  IF at = {} THEN 0 ELSE Min(at)

RECURSIVE SplitLines(_)
SplitLines(t) ==
  LET nl == {i \in 1..Len(t) : t[i] = "\n"}
  IN  IF nl = {} THEN <<t>>
      ELSE <<SubSeq(t, 1, Min(nl) - 1)>> \o SplitLines(SubSeq(t, Min(nl) + 1, Len(t)))

RECURSIVE Concat(_)
Concat(ss) == IF ss = <<>> THEN <<>> ELSE Head(ss) \o Concat(Tail(ss))

(***************************************************************************)
(* The frontmatter dict: an insertion-ordered sequence of <<key, value>>.  *)
(***************************************************************************)
Keys(fm) == {fm[i][1] : i \in 1..Len(fm)}

\* dict.get(k): None when the key is absent
Get(fm, k) ==
  IF k \in Keys(fm) THEN fm[CHOOSE i \in 1..Len(fm) : fm[i][1] = k][2] ELSE None

\* dict.get(k, d): the default only when the key is absent
GetD(fm, k, d) == IF k \in Keys(fm) THEN Get(fm, k) ELSE d

\* isdict: whether frontmatter is a dict (a non-dict has no .get and no .items)
MarkdownBook(frontmatter, review_text, private_notes, highlights, isdict) ==
  [ok |-> TRUE, isdict |-> isdict, frontmatter |-> frontmatter,
   review_text |-> review_text, private_notes |-> private_notes,
   highlights |-> highlights]

\* "return None" of _parse_markdown_file
NoBook ==
  [ok |-> FALSE, isdict |-> FALSE, frontmatter |-> None, review_text |-> None,
   private_notes |-> None, highlights |-> <<>>]

(***************************************************************************)
(* MarkdownSyncService._parse_bullet_list                                  *)
(***************************************************************************)
BulletOf(line) ==
  LET l == Strip(line)
  IN  IF Len(l) >= 2 /\ l[1] = "-" /\ l[2] = " "
      THEN Strip(SubSeq(l, 3, Len(l))) ELSE <<>>

_parse_bullet_list(text) ==
  LET lines == SplitLines(text)
      bullets == [i \in 1..Len(lines) |-> BulletOf(lines[i])]
  IN  SelectSeq(bullets, LAMBDA c : c /= <<>>)

(***************************************************************************)
(* MarkdownSyncService._parse_markdown_sections                            *)
(***************************************************************************)
SectionsMap(body) ==
  {h \in {HReview, HHighlights, HNotes} : Find(body, h) /= 0}

\* text from just after heading h to the next found heading after it
SectionUpToNext(body, h) ==
  LET pos == Find(body, h)
      next_positions == {Find(body, g) : g \in SectionsMap(body)} \cap (pos+1..Len(body))
      end == IF next_positions = {} THEN Len(body) + 1 ELSE Min(next_positions)
  IN  Strip(SubSeq(body, pos + 1, end - 1))

_parse_markdown_sections(body) ==
  LET review_text ==
        IF HReview \in SectionsMap(body) /\ SectionUpToNext(body, HReview) /= <<>>
        THEN Some(SectionUpToNext(body, HReview)) ELSE None
      highlights ==
        IF HHighlights \in SectionsMap(body)
        THEN _parse_bullet_list(SectionUpToNext(body, HHighlights)) ELSE <<>>
      notes_text == Strip(SubSeq(body, Find(body, HNotes) + 1, Len(body)))
      private_notes ==
        IF HNotes \in SectionsMap(body) /\ notes_text /= <<>>
        THEN Some(notes_text) ELSE None
  IN  [review_text |-> review_text, highlights |-> highlights,
       private_notes |-> private_notes]

(***************************************************************************)
(* File text.  kind tells how the text splits at '---':                    *)
(*   "nomarker"      does not start with '---'                             *)
(*   "unterminated"  no second '---'                                       *)
(*   "yamlerror"     yaml.safe_load raises                                 *)
(*   "empty" / "scalar" / "list"   the block loads, but not to a dict      *)
(*   "mapping"       the block loads to the dict fm                        *)
(* body is the text after the second '---'.                                *)
(***************************************************************************)
FileText(kind, fm, body) == [kind |-> kind, fm |-> fm, body |-> body]

\* yaml.safe_load(parts[1]) of a block that is not a mapping
NonDict(kind) == Some(kind)

_parse_markdown_file(text) ==
  IF text.kind \in {"nomarker", "unterminated", "yamlerror"} THEN NoBook
  ELSE LET s == _parse_markdown_sections(Strip(text.body))
           frontmatter == IF text.kind = "mapping" THEN text.fm ELSE NonDict(text.kind)
       IN  MarkdownBook(frontmatter, s.review_text, s.private_notes, s.highlights,
                        text.kind = "mapping")

(***************************************************************************)
(* models/book.py, reading_record.py, review.py: one row of books with its *)
(* 1:1 sub-records and its book_shelves rows (in primary-key order).       *)
(***************************************************************************)
BookColumns ==
  <<"title", "author", "isbn", "isbn13", "publisher", "binding", "pages",
    "year_published", "original_publication_year", "goodreads_book_id",
    "cover_image_url", "date_added">>

\* a datetime is held as its ISO string; utcnow() at clock t is ToString(t)
ValidDates == {"2024-01-01", "2024-02-02"} \cup {ToString(t) : t \in 0..MaxClock}

\* MarkdownBook._parse_datetime / _parse_date
_parse_datetime(value) ==
  IF value = None \/ value = Some("") THEN None
  ELSE IF value[1] \in ValidDates THEN value ELSE None

\* date.isoformat() if date else None
IsoFormat(d) == d

\* MarkdownBook.to_db_models; defined when md.isdict
to_db_models(md) ==
  LET fm == md.frontmatter
  IN  [book |->
         [title |-> GetD(fm, "title", Some("Untitled")),
          author |-> GetD(fm, "author", Some("")),
          isbn |-> Get(fm, "isbn"),
          isbn13 |-> Get(fm, "isbn13"),
          publisher |-> Get(fm, "publisher"),
          binding |-> Get(fm, "binding"),
          pages |-> Get(fm, "pages"),
          year_published |-> Get(fm, "year_published"),
          original_publication_year |-> Get(fm, "original_publication_year"),
          goodreads_book_id |-> Get(fm, "goodreads_book_id"),
          cover_image_url |-> Get(fm, "cover_image_url"),
          date_added |-> _parse_datetime(Get(fm, "date_added")),
          last_synced_at |-> None,
          sync_hash |-> None,
          reading_record |-> None,
          review |-> None,
          book_shelves |-> <<>>],
       reading_record |->
         [status |-> GetD(fm, "status", Some("to-read")),
          date_started |-> _parse_datetime(Get(fm, "date_started")),
          date_finished |-> _parse_datetime(Get(fm, "date_finished")),
          read_count |-> GetD(fm, "read_count", Some("1"))],
       review |->
         [rating |-> Get(fm, "rating"),
          review_text |-> md.review_text,
          private_notes |-> md.private_notes,
          highlights |-> IF md.highlights /= <<>> THEN Some(md.highlights) ELSE None,
          is_spoiler |-> GetD(fm, "is_spoiler", Some("False"))]]

\* MarkdownBook.from_db_models; shelfNames: shelf id -> name; clock: utcnow()
from_db_models(book, shelfNames, clock) ==
  LET rr == book.reading_record
      rv == book.review
      bookPart ==
        [i \in 1..Len(BookColumns) |->
           <<BookColumns[i],
             IF BookColumns[i] = "date_added" THEN IsoFormat(book.date_added)
             ELSE book[BookColumns[i]]>>]
      rrPart ==
        IF rr = None THEN <<>>
        ELSE << <<"status", rr[1].status>>,
                <<"date_started", IsoFormat(rr[1].date_started)>>,
                <<"date_finished", IsoFormat(rr[1].date_finished)>>,
                <<"read_count", rr[1].read_count>> >>
      rvPart ==
        IF rv = None THEN <<>>
        ELSE << <<"rating", rv[1].rating>>, <<"is_spoiler", rv[1].is_spoiler>> >>
      shPart ==
        IF book.book_shelves = <<>> THEN <<>>
        ELSE << <<"shelves",
                  Some([i \in 1..Len(book.book_shelves) |->
                          shelfNames[book.book_shelves[i].shelf_id]])>> >>
      syncPart == << <<"last_synced", Some(ToString(clock))>> >>
  IN  MarkdownBook(bookPart \o rrPart \o rvPart \o shPart \o syncPart,
                   IF rv = None THEN None ELSE rv[1].review_text,
                   IF rv = None THEN None ELSE rv[1].private_notes,
                   IF rv = None \/ rv[1].highlights = None THEN <<>>
                   ELSE rv[1].highlights[1],
                   TRUE)

(***************************************************************************)
(* MarkdownSyncService._generate_filename: slugify(title, max_length=100)  *)
(* + ".md", on the titles of the model (a slug is its own slug).           *)
(***************************************************************************)
_generate_filename(title) ==
  CASE title = "Dune" -> "dune.md"
    [] title = "DUNE" -> "dune.md"
    [] title = "Emma" -> "emma.md"
    [] title = "Untitled" -> "untitled.md"
    [] OTHER -> title

(***************************************************************************)
(* MarkdownSyncService._write_markdown_file: the text it builds, and the   *)
(* frontmatter it leaves in md_book.                                       *)
(***************************************************************************)
clean_frontmatter(md) ==
  SelectSeq(md.frontmatter, LAMBDA kv : kv[2] /= None /\ kv[1] /= "sync_hash")

HighlightLines(hs) ==
  Concat([i \in 1..Len(hs) |-> <<"-", " ">> \o hs[i] \o <<"\n">>])

Content(md) ==
  LET review ==
        IF md.review_text /= None /\ md.review_text[1] /= <<>>
        THEN <<HReview, "\n">> \o RStrip(md.review_text[1]) \o <<"\n", "\n">>
        ELSE <<>>
      highlights ==
        IF md.highlights /= <<>>
        THEN <<HHighlights, "\n">> \o HighlightLines(md.highlights) \o <<"\n">>
        ELSE <<>>
      notes ==
        IF md.private_notes /= None /\ md.private_notes[1] /= <<>>
        THEN <<HNotes, "\n">> \o RStrip(md.private_notes[1]) \o <<"\n">>
        ELSE <<>>
  IN  FileText("mapping", clean_frontmatter(md), <<"\n">> \o review \o highlights \o notes)

Written(md) == [md EXCEPT !.frontmatter = clean_frontmatter(md)]

(***************************************************************************)
(* MarkdownSyncService._calculate_sync_hash; defined when md.isdict.       *)
(* sha256 is taken to be injective: the digest is the sorted-key mapping   *)
(* content_fields it is computed from.                                     *)
(***************************************************************************)
\* mutant: last_synced is hashed with the content
SyncMetadataKeepsLastSynced == {"sync_hash", "updated_at"}

SyncMetadata == {"last_synced", "sync_hash", "updated_at"}

\* the keys lines 479-481 write into content_fields, over whatever the
\* frontmatter holds under those names
BodyKeys == {"_review_text", "_highlights", "_private_notes"}

_calculate_sync_hash(md) ==
  LET content_fields == Keys(md.frontmatter) \ SyncMetadata
  IN  [k \in content_fields \cup BodyKeys |->
         CASE k = "_review_text" ->
                IF md.review_text = None THEN <<>> ELSE md.review_text[1]
           [] k = "_highlights" -> md.highlights
           [] k = "_private_notes" ->
                IF md.private_notes = None THEN <<>> ELSE md.private_notes[1]
           [] OTHER -> Get(md.frontmatter, k)]

(***************************************************************************)
(* The store.  Constraints of models/book.py and models/shelf.py that a    *)
(* flush or commit enforces (IntegrityError).                              *)
(***************************************************************************)
TruthyStr(o) == o /= None /\ o[1] /= ""

\* Book.query.filter_by(col=value).first(): the id, 0 for None
FirstBy(bks, col, value) ==
  LET hit == {i \in 1..Len(bks) : bks[i][col] = value}
  IN  IF hit = {} THEN 0 ELSE Min(hit)

\* unique=True on isbn, isbn13, goodreads_book_id (NULLs never collide);
\* nullable=False on title
InsertAllowed(bks, book) ==
  /\ book.title /= None
  /\ \A col \in {"isbn", "isbn13", "goodreads_book_id"} :
       book[col] /= None => FirstBy(bks, col, book[col]) = 0

\* UniqueConstraint('book_id', 'shelf_id')
NoDuplicates(seq) == \A i, j \in 1..Len(seq) : seq[i] = seq[j] => i = j

(***************************************************************************)
(* MarkdownSyncService._sync_shelves on a book that has no association yet *)
(***************************************************************************)
\* mutant: a shelf is created for every name, found or not
FindOrCreateShelvesAlwaysCreates(shs, names) == shs \o names

RECURSIVE FindOrCreateShelves(_, _)
FindOrCreateShelves(shs, names) ==
  IF names = <<>> THEN shs
  ELSE FindOrCreateShelves(
         IF \E i \in 1..Len(shs) : shs[i] = Head(names) THEN shs
         ELSE Append(shs, Head(names)),
         Tail(names))

ShelfId(shs, name) == Min({i \in 1..Len(shs) : shs[i] = name})

_sync_shelves(shs, shelf_names) ==
  LET shs2 == FindOrCreateShelves(shs, shelf_names)
  IN  [shelves |-> shs2,
       book_shelves |->
         [p \in 1..Len(shelf_names) |->
            [shelf_id |-> ShelfId(shs2, shelf_names[p]), position |-> p - 1]]]

(***************************************************************************)
(* MarkdownSyncService._update_book_from_markdown                          *)
(***************************************************************************)
_update_book_from_markdown(existing_book, new_book, reading_record, review) ==
  [existing_book EXCEPT
     !.title = new_book.title,
     !.author = new_book.author,
     !.publisher = new_book.publisher,
     !.binding = new_book.binding,
     !.pages = new_book.pages,
     !.year_published = new_book.year_published,
     !.reading_record =
        IF existing_book.reading_record = None THEN None
        ELSE Some(reading_record),
     !.review =
        IF existing_book.review = None THEN None
        ELSE Some([existing_book.review[1] EXCEPT
                     !.rating = review.rating,
                     !.review_text = review.review_text,
                     !.private_notes = review.private_notes,
                     !.is_spoiler = review.is_spoiler])]

(***************************************************************************)
(* MarkdownSyncService.sync_markdown_to_db                                 *)
(***************************************************************************)
\* lines 245-250: the lookup by ISBN; the id found, 0 for None
existing_book(bks, book) ==
  IF TruthyStr(book.isbn13) THEN FirstBy(bks, "isbn13", book.isbn13)
  ELSE IF TruthyStr(book.isbn) THEN FirstBy(bks, "isbn", book.isbn)
  ELSE 0

\* lines 268-271 on the update path: sync_hash and last_synced_at are set on
\* `book`, the object to_db_models built, which is not in the session; the
\* row of existing_book keeps its values.
\* mutant: the update path stamps date_added with the time of the pull
UpdatedRowStampsDate(row, m, md, clock) ==
  [_update_book_from_markdown(row, m.book, m.reading_record, m.review)
     EXCEPT !.date_added = Some(ToString(clock))]

UpdatedRow(row, m, md, clock) ==
  _update_book_from_markdown(row, m.book, m.reading_record, m.review)

\* lines 256-271 on the create path: `book` is the inserted row
CreatedRow(m, assoc, md, clock) ==
  [m.book EXCEPT
     !.date_added = IF m.book.date_added = None THEN Some(ToString(clock))
                    ELSE m.book.date_added,
     !.reading_record = Some(m.reading_record),
     !.review = Some(m.review),
     !.book_shelves = assoc,
     !.sync_hash = Some(_calculate_sync_hash(md)),
     !.last_synced_at = Some(clock)]

\* mutant: a failed call leaves what it had flushed
RollbackKeepsFlushed(before, flushed) == flushed

\* self.db.rollback(): the table as it was when the transaction began,
\* whatever the session had changed or flushed
Rollback(before, flushed) == before

\* except Exception: rollback, return False
Failed(bks, shs) ==
  [ok |-> FALSE, books |-> bks, shelves |-> shs, id |-> 0, created |-> FALSE]

\* The calls that can raise: to_db_models on a frontmatter that is no dict,
\* the commit of a row whose title is null, the flush of a row that breaks a
\* unique constraint, _sync_shelves on `shelves: null` (after the flush of
\* the book), the commit of two associations with one shelf (after the flush
\* of the book and of the shelves created).
sync_markdown_to_db(bks, shs, fls, file_path, clock) ==
  LET md == IF file_path \in DOMAIN fls /\ fls[file_path] /= None
            THEN _parse_markdown_file(fls[file_path][1]) ELSE NoBook
  IN  IF ~md.ok \/ ~md.isdict THEN Failed(bks, shs)
      ELSE
        LET m == to_db_models(md)
            found == existing_book(bks, m.book)
            names == GetD(md.frontmatter, "shelves", Some(<<>>))
        IN  IF found /= 0
            THEN LET upd == [bks EXCEPT ![found] = UpdatedRow(bks[found], m, md, clock)]
                 IN  IF m.book.title = None THEN Failed(Rollback(bks, upd), shs)
                     ELSE [ok |-> TRUE, books |-> upd,
                           shelves |-> shs, id |-> found, created |-> FALSE]
            ELSE IF ~InsertAllowed(bks, m.book) THEN Failed(bks, shs)
            ELSE IF names = None
            THEN Failed(Rollback(bks, Append(bks, CreatedRow(m, <<>>, md, clock))), shs)
            ELSE LET sh == _sync_shelves(shs, names[1])
                     ins == Append(bks, CreatedRow(m, sh.book_shelves, md, clock))
                 IN  IF ~NoDuplicates(names[1])
                     THEN Failed(Rollback(bks, ins), Rollback(shs, sh.shelves))
                     ELSE [ok |-> TRUE, books |-> ins,
                           shelves |-> sh.shelves, id |-> Len(bks) + 1,
                           created |-> TRUE]

(***************************************************************************)
(* MarkdownSyncService.sync_db_to_markdown, one call at a time.  fault is   *)
(* what raises in it:                                                      *)
(*   "none"    nothing                                                     *)
(*   "write"   _write_markdown_file (open, write or replace); its except   *)
(*             clause removes the temporary file, the document is as it was*)
(*   "commit"  self.db.commit(), after the file was written                *)
(***************************************************************************)
Faults == {"none", "write", "commit"}

sync_db_to_markdown(bks, shs, fls, book_id, clock, fault) ==
  IF book_id \notin 1..Len(bks)
  THEN [ok |-> FALSE, books |-> bks, files |-> fls, filename |-> ""]
  ELSE LET md == from_db_models(bks[book_id], shs, clock)
           filename == _generate_filename(bks[book_id].title[1])
           wr == [fls EXCEPT ![filename] = Some(Content(md))]
           upd == [bks EXCEPT ![book_id].sync_hash =
                                 Some(_calculate_sync_hash(Written(md))),
                              ![book_id].last_synced_at = Some(clock)]
       IN  IF fault = "write"
           THEN [ok |-> FALSE, books |-> bks, files |-> fls, filename |-> filename]
           ELSE IF fault = "commit"
           THEN [ok |-> FALSE, books |-> Rollback(bks, upd), files |-> wr,
                 filename |-> filename]
           ELSE [ok |-> TRUE, books |-> upd, files |-> wr, filename |-> filename]

(***************************************************************************)
(* The conflict inventory: routes/admin.py sync_status and                 *)
(* cli_commands.py check_conflicts.  Both raise (AttributeError out of     *)
(* _calculate_sync_hash) when a record's file parses to a non-dict.        *)
(***************************************************************************)
Exists(fls, name) == name \in DOMAIN fls /\ fls[name] /= None

RECURSIVE SeqOf(_)
SeqOf(S) == IF S = {} THEN <<>>
            ELSE LET x == CHOOSE y \in S : TRUE IN <<x>> \o SeqOf(S \ {x})

\* list(books_path.glob('*.md'))
md_files(fls) == SeqOf({f \in DOMAIN fls : fls[f] /= None})

db_filenames(bks) == {_generate_filename(bks[i].title[1]) : i \in 1..Len(bks)}

\* mutant: a null sync_hash counts as a difference
HashDiffersOrNull(book, md) ==
  book.sync_hash /= Some(_calculate_sync_hash(md))

\* book.sync_hash and book.sync_hash != md_hash
HashDiffers(book, md) ==
  book.sync_hash /= None /\ book.sync_hash /= Some(_calculate_sync_hash(md))

\* admin.py lines 31-61: one record's conflict_type ("" for None)
admin_conflict_type(book, fls) ==
  LET filename == _generate_filename(book.title[1])
  IN  IF ~Exists(fls, filename) THEN "missing_markdown"
      ELSE LET md == _parse_markdown_file(fls[filename][1])
           IN  IF md.ok
               THEN IF ~md.isdict THEN "raise"
                    ELSE IF HashDiffers(book, md) THEN "hash_mismatch" ELSE ""
               ELSE ""

\* cli_commands.py lines 140-172: one record's conflict ("" for none)
cli_conflict_type(book, fls) ==
  LET filename == _generate_filename(book.title[1])
  IN  IF ~Exists(fls, filename) THEN "missing_markdown"
      ELSE LET md == _parse_markdown_file(fls[filename][1])
           IN  IF ~md.ok THEN "invalid_markdown"
               ELSE IF ~md.isdict THEN "raise"
               ELSE IF HashDiffers(book, md) THEN "hash_mismatch" ELSE ""

Orphans(bks, fls, type) ==
  LET all == md_files(fls)
      mine == SelectSeq(all, LAMBDA f : f \notin db_filenames(bks))
  IN  [i \in 1..Len(mine) |-> [book_id |-> 0, filename |-> mine[i], type |-> type]]

\* admin.py sync_status: book_statuses, or the exception
sync_status(bks, fls) ==
  LET per == [i \in 1..Len(bks) |->
                [book_id |-> i, filename |-> _generate_filename(bks[i].title[1]),
                 type |-> admin_conflict_type(bks[i], fls)]]
  IN  IF \E i \in 1..Len(bks) : per[i].type = "raise"
      THEN [raised |-> TRUE, statuses |-> <<>>]
      ELSE [raised |-> FALSE,
            statuses |-> per \o Orphans(bks, fls, "orphaned_markdown")]

\* cli_commands.py check_conflicts: one entry per record (type "" when the
\* loop appends nothing for it) and the orphan entries, or the exception
check_conflicts(bks, fls) ==
  LET per == [i \in 1..Len(bks) |->
                [book_id |-> i, filename |-> _generate_filename(bks[i].title[1]),
                 type |-> cli_conflict_type(bks[i], fls)]]
  IN  IF \E i \in 1..Len(bks) : per[i].type = "raise"
      THEN [raised |-> TRUE, statuses |-> <<>>]
      ELSE [raised |-> FALSE,
            statuses |-> per \o Orphans(bks, fls, "missing_database")]

(***************************************************************************)
(* Inputs: the texts an external editor leaves in the directory, and the   *)
(* rows a CSV import inserts.                                              *)
(***************************************************************************)
FileNames == {"dune.md", "emma.md", "unrelated-notes.md"}

Doc(fm, review_text, private_notes, highlights) ==
  Content(MarkdownBook(fm, review_text, private_notes, highlights, TRUE))

DuneByIsbn13 ==
  Doc(<< <<"title", Some("Dune")>>, <<"author", Some("Herbert")>>,
         <<"isbn13", Some("9780441013593")>> >>,
      Some(<<"g">>), None, <<>>)

DuneEdited ==
  Doc(<< <<"title", Some("Dune")>>, <<"author", Some("F. Herbert")>>,
         <<"isbn13", Some("9780441013593")>>, <<"last_synced", Some("0")>> >>,
      Some(<<"g", "d">>), None, << <<"h">> >>)

EmmaNoIsbn ==
  Doc(<< <<"title", Some("Emma")>>, <<"author", Some("Austen")>> >>,
      None, Some(<<"n">>), <<>>)

DuneByIsbn10 ==
  Doc(<< <<"title", Some("Dune")>>, <<"isbn", Some("0441013597")>> >>,
      None, None, <<>>)

DuneBothIsbn ==
  Doc(<< <<"author", Some("Herbert")>>, <<"title", Some("DUNE")>>,
         <<"isbn", Some("0441013597")>>, <<"isbn13", Some("9780000000000")>> >>,
      None, None, <<>>)

NoMarker == FileText("nomarker", <<>>, <<"h", "i">>)
EmptyBlock == FileText("empty", <<>>, <<"\n">>)

UserTexts ==
  {DuneByIsbn13, DuneEdited, EmmaNoIsbn, DuneByIsbn10, DuneBothIsbn, NoMarker, EmptyBlock}

\* what the editor saves under which name
UserFiles ==
  ({"dune.md"} \X (UserTexts \ {EmmaNoIsbn, DuneByIsbn13}))
    \cup ({"emma.md"} \X {EmmaNoIsbn, EmptyBlock})
    \cup ({"unrelated-notes.md"} \X {NoMarker})

\* import_service.py create_book / create_reading_record / create_review
ImportedRow(title, isbn, isbn13) ==
  [to_db_models(MarkdownBook(<< <<"title", Some(title)>>, <<"isbn", isbn>>,
                                <<"isbn13", isbn13>> >>,
                             None, None, <<>>, TRUE)).book
     EXCEPT !.reading_record =
              Some([status |-> Some("read"), date_started |-> None,
                    date_finished |-> None, read_count |-> Some("1")])]

CsvRows ==
  {ImportedRow("Emma", None, None),
   ImportedRow("Dune", Some("0441013597"), None)}

(***************************************************************************)
(* The file system as _write_markdown_file's atomic write sees it:         *)
(* directory entries name inodes, open(path, 'w') creates the entry or     *)
(* truncates the inode it names, write appends to the open inode a buffer  *)
(* at a time, Path.replace moves the entry.                                *)
(***************************************************************************)
NChunks == 2
MaxWrites == 2

Writers == {1, 2}

DocPaths == {"dune.md"}

\* file_path.with_suffix('.tmp')
with_suffix_tmp(file_path) ==
  CASE file_path = "dune.md" -> "dune.tmp"
    [] OTHER -> "untitled.tmp"

Paths == DocPaths \cup {with_suffix_tmp(f) : f \in DocPaths}

\* the buffers f.write(content) flushes
Chunks(content) == [k \in 1..NChunks |-> <<content, k>>]

Hole == <<>>

\* write(2) of one buffer at offset k of a file holding c
WriteAt(c, k, chunk) ==
  [i \in 1..Max({Len(c), k}) |->
     IF i = k THEN chunk ELSE IF i <= Len(c) THEN c[i] ELSE Hole]

\* what path holds: None when there is no such entry
ContentOf(d, ino, path) == IF d[path] = 0 THEN None ELSE Some(ino[d[path]])

\* a file that holds all of one content and nothing else
IsComplete(c) ==
  /\ Len(c) = NChunks
  /\ c[1] /= Hole
  /\ c = Chunks(c[1][1])

IdleWriter ==
  [pc |-> "idle", id |-> 0, path |-> "", content |-> None, hash |-> None,
   off |-> 0, fd |-> 0, orig |-> None,
   ret |-> "none", wrote |-> FALSE, tgt |-> None, tmp |-> FALSE]

IdleReader == [fd |-> 0, seen |-> None]

WriteIdle ==
  /\ dir = [p \in Paths |-> 0]
  /\ inode = <<>>
  /\ writer = [w \in Writers |-> IdleWriter]
  /\ reader = IdleReader
  /\ installed = {}
  /\ nwrites = 0

(***************************************************************************)
(* The debounced watch: MarkdownFileEventHandler.  One unit of time is one *)
(* sleep of the debounce worker (half a second).                           *)
(***************************************************************************)
debounce_seconds == 2
TicksPerSecond == 2
DebounceTicks == debounce_seconds * TicksPerSecond
SleepTicks == 1
\* self.debounce_thread.join(timeout=5)
join_timeout == 5
JoinTicks == join_timeout * TicksPerSecond

MaxTime == 8
MaxEvents == 2

WatchedPaths == {"dune.md"}
EventPaths == WatchedPaths \cup {"dune.tmp"}

\* path.endswith('.md') and not path.endswith('.tmp')
_is_markdown_file(path) == path \in FileNames

\* threads: how many _debounce_worker threads are alive; the other fields are
\* those of the thread debounce_thread names
IdleWorker ==
  [alive |-> FALSE, pc |-> "none", current_time |-> 0, snap |-> <<>>,
   files_to_sync |-> <<>>, wake |-> 0, threads |-> 0]

NoBurst == [n |-> 0, last |-> None, pulls |-> 0]

\* type: what the inventory said of the path's record when the pull began;
\* changed: whether the pull changed the table
NoPull ==
  [n |-> 0, path |-> "", at |-> 0, age |-> 0, read |-> None, ok |-> FALSE,
   type |-> "", changed |-> FALSE]

\* handler.stop() has not been called.
\*   pc        "none", "joining" (stop_event set, in join), "returned"
\*   deadline  when the join gives up
\*   inpass    the worker was between its loop test and the end of its syncs
\*             when stop_event was set
\*   timedout  the join gave up with the worker alive
\*   late      the worker began a pull after stop_event was set
\*   after     the worker began a pull after stop() had returned
NoStop ==
  [pc |-> "none", deadline |-> 0, inpass |-> FALSE, timedout |-> FALSE,
   late |-> FALSE, after |-> FALSE]

\* the type the inventory (cli_commands.py check_conflicts) gives the record
\* kept in file f; "" when it is in sync or there is no such record
RecordStatus(bks, fls, f) ==
  LET mine == {i \in 1..Len(bks) : _generate_filename(bks[i].title[1]) = f}
  IN  IF mine = {} THEN "" ELSE cli_conflict_type(bks[Min(mine)], fls)

\* list(self.pending_changes.items())
Items(pend) ==
  LET ps == SeqOf({p \in DOMAIN pend : pend[p] /= None})
  IN  [i \in 1..Len(ps) |-> <<ps[i], pend[ps[i]][1]>>]

WatchIdle ==
  /\ time = 0
  /\ pending = [p \in WatchedPaths |-> None]
  /\ worker = IdleWorker
  /\ sched = None
  /\ stop_event = FALSE
  /\ burst = [p \in WatchedPaths |-> NoBurst]
  /\ wpull = NoPull
  /\ nevents = 0
  /\ stopper = NoStop

\* no PushToFile and no PullFromFile is under way step by step
\*   push.pc   "idle", "read", "write", "commit", "done"
\*   pull.pc   "idle", "parse", "commit", "done"
\*   books0, files0   the table and the directory when the two calls began
NoRace ==
  [push |-> [pc |-> "idle", id |-> 0, md |-> NoBook, filename |-> ""],
   pull |-> [pc |-> "idle", path |-> "", text |-> None],
   books0 |-> <<>>, files0 |-> <<>>]

\* init_file_watcher has not been called
\*   created    _file_watcher is a FileWatcherService
\*   start      the thread running start(): "none", "pending", "done", "raised"
\*   observer   self.observer: "none", "alive", "stopped"
\*   observers  how many observer threads are alive
\*   context    the application context init_file_watcher was called in is open
\*   inreq      a request is being served
\*   requests   requests completed
\*   explicit   stop() was called other than by a teardown
\*   watched    the watch has been running
\*   events     file events the observer has dispatched
\*   lost       a file event found no running observer after the watch had run
NoApp ==
  [created |-> FALSE, start |-> "none", observer |-> "none", observers |-> 0,
   context |-> FALSE, inreq |-> FALSE, requests |-> 0, explicit |-> FALSE,
   watched |-> FALSE, events |-> 0, lost |-> FALSE]

AppIdle ==
  /\ race = NoRace
  /\ app = NoApp

\* neither the codec nor the hasher has been applied to anything
PureIdle ==
  /\ docs = <<>>
  /\ written = None
  /\ parsed = None
  /\ hashes = None
  /\ AppIdle

(***************************************************************************)
(* The record of a call.                                                   *)
(*   id      the record a pull resolved to / the record a push was for     *)
(*   text    the text a pull read / a push wrote                           *)
(*   md      what the pull parsed                                          *)
(*   before  the table a pull found                                        *)
(*   hash    the record's sync_hash when a push returned                   *)
(*   fault   what raised in a push                                         *)
(***************************************************************************)
NoCall ==
  [op |-> "none", path |-> "", id |-> 0, ok |-> FALSE, created |-> FALSE,
   text |-> None, md |-> NoBook, at |-> 0, n |-> 0, before |-> <<>>,
   hash |-> None, fault |-> "none"]

svars == <<books, shelves, files, now, last, prev, nops>>
wvars == <<dir, inode, writer, reader, installed, nwrites>>
dvars == <<time, pending, worker, sched, stop_event, burst, wpull, nevents,
           stopper>>
pvars == <<docs, written, parsed, hashes, race, app>>
vars == <<svars, wvars, dvars, pvars>>

Init ==
  /\ books = <<>>
  /\ shelves = <<>>
  /\ files = [f \in FileNames |-> None]
  /\ now = 0
  /\ last = NoCall
  /\ prev = NoCall
  /\ nops = 0
  /\ WriteIdle
  /\ WatchIdle
  /\ PureIdle

\* the clock advances
Tick ==
  /\ now < MaxClock
  /\ now' = now + 1
  /\ UNCHANGED <<books, shelves, files, last, prev, nops, wvars, dvars, pvars>>

\* an external editor saves a file
ExternalEdit(name, text) ==
  /\ nops < MaxOps
  /\ files[name] /= Some(text)
  /\ files' = [files EXCEPT ![name] = Some(text)]
  /\ last' = [NoCall EXCEPT !.op = "edit", !.path = name, !.n = nops + 1]
  /\ prev' = last
  /\ nops' = nops + 1
  /\ UNCHANGED <<books, shelves, now, wvars, dvars, pvars>>

\* routes/import_routes.py: a CSV import inserts a row and does not sync it
ImportCsvRow(row) ==
  /\ Len(books) < MaxBooks
  /\ InsertAllowed(books, row)
  /\ books' = Append(books, row)
  /\ UNCHANGED <<shelves, files, now, last, prev, nops, wvars, dvars, pvars>>

\* PullFromFile(path): admin sync_from_markdown, import-markdown, the watcher
Pull(path) ==
  \E r \in {sync_markdown_to_db(books, shelves, files, path, now)} :
      /\ nops < MaxOps
      /\ Len(r.books) <= MaxBooks
      /\ books' = r.books
      /\ shelves' = r.shelves
      /\ last' = [op |-> "pull", path |-> path, id |-> r.id, ok |-> r.ok,
                  created |-> r.created, text |-> files[path],
                  md |-> IF files[path] = None THEN NoBook
                         ELSE _parse_markdown_file(files[path][1]),
                  at |-> now, n |-> nops + 1, before |-> books, hash |-> None,
                  fault |-> "none"]
      /\ prev' = last
      /\ nops' = nops + 1
      /\ UNCHANGED <<files, now, wvars, dvars, pvars>>

\* PushToFile(book_id): admin sync_book, export-markdown, after a UI edit
Push(book_id, fault) ==
  \E r \in {sync_db_to_markdown(books, shelves, files, book_id, now, fault)} :
      /\ nops < MaxOps
      /\ books' = r.books
      /\ files' = r.files
      /\ last' = [NoCall EXCEPT !.op = "push", !.path = r.filename, !.id = book_id,
                                !.ok = r.ok,
                                !.text = IF r.ok THEN r.files[r.filename] ELSE None,
                                !.hash = IF r.ok THEN r.books[book_id].sync_hash
                                         ELSE None,
                                !.at = now, !.n = nops + 1, !.fault = fault]
      /\ prev' = last
      /\ nops' = nops + 1
      /\ UNCHANGED <<shelves, now, wvars, dvars, pvars>>

Next ==
  \/ Tick
  \/ \E nt \in UserFiles : ExternalEdit(nt[1], nt[2])
  \/ \E row \in CsvRows : ImportCsvRow(row)
  \/ \E path \in FileNames : Pull(path)
  \/ \E id \in 1..MaxBooks + 1 : Push(id, "none")

Spec == Init /\ [][Next]_vars

(***************************************************************************)
(* Claims about the sync engine and the inventory, checked under Spec.     *)
(***************************************************************************)
Fingerprint(md) == Some(_calculate_sync_hash(md))

HasIdentifier(md) ==
  md.ok /\ md.isdict
    /\ (TruthyStr(Get(md.frontmatter, "isbn13")) \/ TruthyStr(Get(md.frontmatter, "isbn")))

\* C1: after a successful PullFromFile the record the file resolved to has
\* sync_hash = Fingerprint(parsed document) and last_synced_at = the time of
\* the call.
C1_PullStoresFingerprint ==
  (last.op = "pull" /\ last.ok) =>
     /\ books[last.id].sync_hash = Fingerprint(last.md)
     /\ books[last.id].last_synced_at = Some(last.at)

PushedTwice ==
  /\ last.op = "push" /\ prev.op = "push"
  /\ last.id = prev.id
  /\ last.ok /\ prev.ok

\* the file text with the value of last_synced blanked
BlankLastSynced(text) ==
  IF text = None THEN None
  ELSE Some([text[1] EXCEPT !.fm =
               [i \in 1..Len(text[1].fm) |->
                  IF text[1].fm[i][1] = "last_synced" THEN <<"last_synced", None>>
                  ELSE text[1].fm[i]]])

StoreContent(bks, shs) ==
  <<[i \in 1..Len(bks) |-> [bks[i] EXCEPT !.last_synced_at = None]], shs>>

\* a PullFromFile step of the path the call before it pulled
PullAgain ==
  /\ last.op = "pull" /\ last'.op = "pull"
  /\ last'.n = last.n + 1
  /\ last'.path = last.path

ResolvesTo(bks, book) ==
  IF TruthyStr(book.isbn13) /\ FirstBy(bks, "isbn13", book.isbn13) /= 0
  THEN FirstBy(bks, "isbn13", book.isbn13)
  ELSE IF TruthyStr(book.isbn) /\ FirstBy(bks, "isbn", book.isbn) /= 0
  THEN FirstBy(bks, "isbn", book.isbn)
  ELSE 0

\* C5: PullFromFile resolves to the record matching the ISBN-13, else to the
\* record matching the ISBN-10 (also when an ISBN-13 is given and matches
\* nothing); it inserts only when neither matches.
C5_IdentityResolution ==
  (last.op = "pull" /\ last.md.ok /\ last.md.isdict) =>
     LET want == ResolvesTo(last.before, to_db_models(last.md).book)
     IN  IF want /= 0 THEN last.ok /\ ~last.created /\ last.id = want
         ELSE last.ok => last.created

Inventories == {sync_status(books, files), check_conflicts(books, files)}

\* the type an inventory gives record i; none when it raised
TypeOf(inv, i) == IF inv.raised THEN "unclassified" ELSE inv.statuses[i].type

FileOf(i) == _generate_filename(books[i].title[1])

\* the file parses to a document: marker, closing marker, a mapping
Parses(text) == text.kind = "mapping"

\* C8: a record whose file exists and parses is classified hash_mismatch iff
\* its sync_hash is non-null and differs from the file's fingerprint, and in
\* sync otherwise.
C8_HashClassification ==
  \A i \in 1..Len(books) :
    (Exists(files, FileOf(i)) /\ Parses(files[FileOf(i)][1])) =>
      LET fp == Fingerprint(_parse_markdown_file(files[FileOf(i)][1]))
          mismatch == books[i].sync_hash /= None /\ books[i].sync_hash /= fp
      IN  \A inv \in Inventories :
            TypeOf(inv, i) = IF mismatch THEN "hash_mismatch" ELSE ""

\* the parser returns no document for the file
Unparseable(text) == ~_parse_markdown_file(text).ok

\* C9: a record whose file exists and cannot be parsed is reported as
\* invalid_markdown by both inventories.
C9_InvalidFile ==
  \A i \in 1..Len(books) :
    (Exists(files, FileOf(i)) /\ Unparseable(files[FileOf(i)][1])) =>
      \A inv \in Inventories : TypeOf(inv, i) = "invalid_markdown"

OrphanEntries(inv, f) ==
  {k \in 1..Len(inv.statuses) :
     inv.statuses[k].book_id = 0 /\ inv.statuses[k].filename = f}

\* C10: a file gets exactly one orphan entry when its name is the derived
\* filename of no record, and none otherwise.
C10_Orphans ==
  \A inv \in Inventories : \A f \in FileNames :
    Exists(files, f) =>
      Cardinality(OrphanEntries(inv, f)) =
        IF \E i \in 1..Len(books) : FileOf(i) = f THEN 0 ELSE 1

(***************************************************************************)
(* PushToFile one step at a time: sync_db_to_markdown running in request   *)
(* threads, _write_markdown_file's open / write / replace / except, and a  *)
(* reader of the document file.  A step of open, write or replace may      *)
(* raise.                                                                  *)
(***************************************************************************)
\* sync_db_to_markdown up to the call of _write_markdown_file
PushBegin(w, book_id) ==
  /\ nwrites < MaxWrites
  /\ writer[w].pc = "idle"
  /\ nwrites' = nwrites + 1
  /\ IF book_id \notin 1..Len(books)
     THEN writer' = [writer EXCEPT ![w] = [IdleWriter EXCEPT !.id = book_id,
                                                              !.ret = "false"]]
     ELSE \E md \in {from_db_models(books[book_id], shelves, now)} :
          \E file_path \in {_generate_filename(books[book_id].title[1])} :
              writer' = [writer EXCEPT ![w] =
                [IdleWriter EXCEPT !.pc = "open", !.id = book_id,
                                   !.path = file_path,
                                   !.content = Some(Content(md)),
                                   !.hash = Some(_calculate_sync_hash(Written(md))),
                                   !.orig = ContentOf(dir, inode, file_path)]]
  /\ UNCHANGED <<svars, dir, inode, reader, installed, dvars, pvars>>

\* open(temp_path, 'w'): create the entry, or truncate the inode it names
Open(w, raises) ==
  LET temp_path == with_suffix_tmp(writer[w].path)
  IN  /\ writer[w].pc = "open"
      /\ IF raises
         THEN /\ writer' = [writer EXCEPT ![w].pc = "except"]
              /\ UNCHANGED <<dir, inode>>
         ELSE IF dir[temp_path] = 0
         THEN /\ inode' = Append(inode, <<>>)
              /\ dir' = [dir EXCEPT ![temp_path] = Len(inode) + 1]
              /\ writer' = [writer EXCEPT ![w].pc = "write",
                                          ![w].fd = Len(inode) + 1]
         ELSE /\ inode' = [inode EXCEPT ![dir[temp_path]] = <<>>]
              /\ writer' = [writer EXCEPT ![w].pc = "write",
                                          ![w].fd = dir[temp_path]]
              /\ UNCHANGED dir
      /\ UNCHANGED <<svars, reader, installed, nwrites, dvars, pvars>>

\* f.write(content), one buffer; the with block closes the file
WriteChunk(w, raises) ==
  /\ writer[w].pc = "write"
  /\ IF raises
     THEN /\ writer' = [writer EXCEPT ![w].pc = "except"]
          /\ UNCHANGED inode
     ELSE LET k == writer[w].off + 1
          IN  /\ inode' = [inode EXCEPT ![writer[w].fd] =
                             WriteAt(@, k, Chunks(writer[w].content[1])[k])]
              /\ writer' = [writer EXCEPT
                              ![w].off = k,
                              ![w].pc = IF k = NChunks THEN "replace" ELSE "write"]
  /\ UNCHANGED <<svars, dir, reader, installed, nwrites, dvars, pvars>>

\* temp_path.replace(file_path); FileNotFoundError when temp_path is gone
Replace(w, raises) ==
  LET temp_path == with_suffix_tmp(writer[w].path)
  IN  /\ writer[w].pc = "replace"
      /\ IF raises \/ dir[temp_path] = 0
         THEN /\ writer' = [writer EXCEPT ![w].pc = "except"]
              /\ UNCHANGED <<dir, installed>>
         ELSE /\ dir' = [dir EXCEPT ![writer[w].path] = dir[temp_path],
                                    ![temp_path] = 0]
              /\ installed' = installed \cup {writer[w].content[1]}
              /\ writer' = [writer EXCEPT ![w].pc = "commit"]
      /\ UNCHANGED <<svars, inode, reader, nwrites, dvars, pvars>>

\* except: unlink temp_path if it exists, re-raise; sync_db_to_markdown
\* rolls back and returns False
Cleanup(w) ==
  LET temp_path == with_suffix_tmp(writer[w].path)
      d == [dir EXCEPT ![temp_path] = 0]
  IN  /\ writer[w].pc = "except"
      /\ dir' = d
      /\ writer' = [writer EXCEPT ![w].pc = "idle", ![w].ret = "false",
                                  ![w].wrote = TRUE,
                                  ![w].tgt = ContentOf(d, inode, writer[w].path),
                                  ![w].tmp = d[temp_path] /= 0]
      /\ UNCHANGED <<svars, inode, reader, installed, nwrites, dvars, pvars>>

\* book.sync_hash, book.last_synced_at, commit, return True
Commit(w) ==
  /\ writer[w].pc = "commit"
  /\ books' = [books EXCEPT ![writer[w].id].sync_hash = writer[w].hash,
                            ![writer[w].id].last_synced_at = Some(now)]
  /\ writer' = [writer EXCEPT ![w].pc = "idle", ![w].ret = "true",
                              ![w].tgt = ContentOf(dir, inode, writer[w].path),
                              ![w].tmp = dir[with_suffix_tmp(writer[w].path)] /= 0]
  /\ UNCHANGED <<shelves, files, now, last, prev, nops, dir, inode, reader,
                 installed, nwrites, dvars, pvars>>

\* a reader opens the document file
ReadOpen(path) ==
  /\ reader.fd = 0
  /\ dir[path] /= 0
  /\ reader' = [reader EXCEPT !.fd = dir[path]]
  /\ UNCHANGED <<svars, dir, inode, writer, installed, nwrites, dvars, pvars>>

\* f.read()
ReadAll ==
  /\ reader.fd /= 0
  /\ reader' = [fd |-> 0, seen |-> Some(inode[reader.fd])]
  /\ UNCHANGED <<svars, dir, inode, writer, installed, nwrites, dvars, pvars>>

InitWrite ==
  /\ books = <<ImportedRow("Dune", None, Some("9780441013593"))>>
  /\ shelves = <<>>
  /\ files = [f \in FileNames |-> None]
  /\ now = 0
  /\ last = NoCall
  /\ prev = NoCall
  /\ nops = 0
  /\ WriteIdle
  /\ WatchIdle
  /\ PureIdle

NextWrite ==
  \/ Tick
  \/ \E w \in Writers, id \in 1..Len(books) + 1 : PushBegin(w, id)
  \/ \E w \in Writers, raises \in BOOLEAN : Open(w, raises)
  \/ \E w \in Writers, raises \in BOOLEAN : WriteChunk(w, raises)
  \/ \E w \in Writers, raises \in BOOLEAN : Replace(w, raises)
  \/ \E w \in Writers : Cleanup(w)
  \/ \E w \in Writers : Commit(w)
  \/ \E path \in DocPaths : ReadOpen(path)
  \/ ReadAll

SpecWrite == InitWrite /\ [][NextWrite]_vars

\* C6: whatever a reader of a document file reads is the whole of one
\* content, under every interleaving with the writes of PushToFile calls.
C6_AtomicWrite ==
  reader.seen /= None => IsComplete(reader.seen[1])

\* C7: when a write has failed, at its return the document file holds what
\* it held when the write began (or what another call renamed into place
\* meanwhile), the temporary file does not exist, and PushToFile returned
\* False.
C7_WriteFailureLeavesNoTrace ==
  \A w \in Writers :
    (writer[w].pc = "idle" /\ writer[w].wrote) =>
       /\ writer[w].ret = "false"
       /\ ~writer[w].tmp
       /\ \/ writer[w].tgt = writer[w].orig
          \/ \E c \in installed : writer[w].tgt = Some(Chunks(c))

(***************************************************************************)
(* The watch one step at a time: the observer's thread delivering events   *)
(* to on_created / on_modified, and the debounce worker thread.            *)
(***************************************************************************)
WatchTexts == {DuneByIsbn13, DuneEdited}

\* time.time() advances: by one unit, or, while stop() is in its join and
\* the worker is held up in a step, to the end of the join
Advance ==
  /\ \/ time < MaxTime /\ time' = time + 1
     \/ /\ stopper.pc = "joining" /\ time < stopper.deadline
        /\ time' = stopper.deadline
  /\ UNCHANGED <<pvars, stopper, svars, wvars, pending, worker, sched, stop_event, burst, wpull,
                 nevents>>

\* an editor saves a document; on_modified, and _schedule_sync up to
\* pending_changes[file_path] = time.time()
FileEvent(path, text) ==
  /\ nevents < MaxEvents
  /\ ~stop_event
  /\ sched = None
  /\ _is_markdown_file(path)
  /\ files[path] /= Some(text)
  /\ files' = [files EXCEPT ![path] = Some(text)]
  /\ pending' = [pending EXCEPT ![path] = Some(time)]
  /\ sched' = Some(path)
  /\ burst' = [burst EXCEPT ![path] =
                 IF @.last /= None /\ time - @.last[1] < DebounceTicks
                 THEN [@ EXCEPT !.n = @ + 1, !.last = Some(time)]
                 ELSE [n |-> 1, last |-> Some(time), pulls |-> 0]]
  /\ nevents' = nevents + 1
  /\ UNCHANGED <<pvars, stopper, books, shelves, now, last, prev, nops, wvars, time, worker,
                 stop_event, wpull>>

\* an event for a path that is not a document: the handlers return
IgnoredEvent(path) ==
  /\ nevents < MaxEvents
  /\ ~stop_event
  /\ sched = None
  /\ ~_is_markdown_file(path)
  /\ nevents' = nevents + 1
  /\ UNCHANGED <<pvars, stopper, svars, wvars, time, pending, worker, sched, stop_event, burst,
                 wpull>>

\* mutant: _schedule_sync starts a thread without looking at is_alive()
StartWorkerAlways ==
  /\ sched /= None
  /\ sched' = None
  /\ worker' = [IdleWorker EXCEPT !.alive = TRUE, !.pc = "loop",
                                  !.threads = worker.threads + 1]
  /\ UNCHANGED <<pvars, stopper, svars, wvars, time, pending, stop_event, burst, wpull, nevents>>

\* _schedule_sync: start the worker if none is alive
StartWorker ==
  /\ sched /= None
  /\ sched' = None
  /\ worker' = IF worker.alive THEN worker
               ELSE [IdleWorker EXCEPT !.alive = TRUE, !.pc = "loop",
                                       !.threads = worker.threads + 1]
  /\ UNCHANGED <<pvars, stopper, svars, wvars, time, pending, stop_event, burst, wpull, nevents>>

\* mutant: the loop does not look at stop_event
WorkerLoopIgnoresStop ==
  /\ worker.alive /\ worker.pc = "loop"
  /\ worker' = [worker EXCEPT !.pc = "scan", !.current_time = time,
                              !.snap = Items(pending),
                              !.files_to_sync = <<>>]
  /\ UNCHANGED <<pvars, stopper, svars, wvars, time, pending, sched, stop_event,
                 burst, wpull, nevents>>

\* while not stop_event.is_set(): current_time, the list of pending items
WorkerLoop ==
  /\ worker.alive /\ worker.pc = "loop"
  /\ worker' = IF stop_event THEN [worker EXCEPT !.pc = "exit"]
               ELSE [worker EXCEPT !.pc = "scan", !.current_time = time,
                                   !.snap = Items(pending),
                                   !.files_to_sync = <<>>]
  /\ UNCHANGED <<pvars, stopper, svars, wvars, time, pending, sched, stop_event, burst, wpull,
                 nevents>>

\* if current_time - last_event_time >= self.debounce_seconds
WorkerScan ==
  /\ worker.alive /\ worker.pc = "scan"
  /\ worker' =
       IF worker.snap = <<>> THEN [worker EXCEPT !.pc = "sync"]
       ELSE IF worker.current_time - Head(worker.snap)[2] >= DebounceTicks
       THEN [worker EXCEPT !.pc = "del"]
       ELSE [worker EXCEPT !.snap = Tail(@)]
  /\ UNCHANGED <<pvars, stopper, svars, wvars, time, pending, sched, stop_event, burst, wpull,
                 nevents>>

\* files_to_sync.append(file_path); del self.pending_changes[file_path]
WorkerDel ==
  /\ worker.alive /\ worker.pc = "del"
  /\ pending' = [pending EXCEPT ![Head(worker.snap)[1]] = None]
  /\ worker' = [worker EXCEPT !.pc = "scan", !.snap = Tail(@),
                              !.files_to_sync = Append(@, Head(worker.snap)[1])]
  /\ UNCHANGED <<pvars, stopper, svars, wvars, time, sched, stop_event, burst, wpull, nevents>>

\* mutant: the worker does not pull a file whose record is in conflict
WorkerSyncUnlessConflict ==
  /\ worker.alive /\ worker.pc = "sync"
  /\ IF worker.files_to_sync = <<>>
     THEN /\ worker' = [worker EXCEPT !.pc = "check"]
          /\ UNCHANGED <<books, shelves, burst, wpull, stopper>>
     ELSE \E file_path \in {Head(worker.files_to_sync)} :
          \E r \in {IF RecordStatus(books, files, file_path) /= ""
                     THEN Failed(books, shelves)
                     ELSE sync_markdown_to_db(books, shelves, files, file_path, time)} :
              /\ books' = r.books
              /\ shelves' = r.shelves
              /\ worker' = [worker EXCEPT !.files_to_sync = Tail(@)]
              /\ burst' = [burst EXCEPT ![file_path].pulls = @ + 1]
              /\ wpull' = [n |-> wpull.n + 1, path |-> file_path, at |-> time,
                           age |-> time - burst[file_path].last[1],
                           read |-> files[file_path], ok |-> r.ok,
                           type |-> RecordStatus(books, files, file_path),
                           changed |-> r.books /= books]
              /\ stopper' = [stopper EXCEPT
                               !.late = @ \/ stop_event,
                               !.after = @ \/ stopper.pc = "returned"]
  /\ UNCHANGED <<pvars, files, now, last, prev, nops, wvars, time, pending, sched,
                 stop_event, nevents>>

\* for file_path in files_to_sync: sync_markdown_to_db(file_path)
WorkerSync ==
  /\ worker.alive /\ worker.pc = "sync"
  /\ IF worker.files_to_sync = <<>>
     THEN /\ worker' = [worker EXCEPT !.pc = "check"]
          /\ UNCHANGED <<books, shelves, burst, wpull, stopper>>
     ELSE \E file_path \in {Head(worker.files_to_sync)} :
          \E r \in {sync_markdown_to_db(books, shelves, files, file_path, time)} :
              /\ books' = r.books
              /\ shelves' = r.shelves
              /\ worker' = [worker EXCEPT !.files_to_sync = Tail(@)]
              /\ burst' = [burst EXCEPT ![file_path].pulls = @ + 1]
              /\ wpull' = [n |-> wpull.n + 1, path |-> file_path, at |-> time,
                           age |-> time - burst[file_path].last[1],
                           read |-> files[file_path], ok |-> r.ok,
                           type |-> RecordStatus(books, files, file_path),
                           changed |-> r.books /= books]
              /\ stopper' = [stopper EXCEPT
                               !.late = @ \/ stop_event,
                               !.after = @ \/ stopper.pc = "returned"]
  /\ UNCHANGED <<pvars, files, now, last, prev, nops, wvars, time, pending, sched,
                 stop_event, nevents>>

\* if not self.pending_changes: break; else time.sleep(0.5)
WorkerCheck ==
  /\ worker.alive /\ worker.pc = "check"
  /\ worker' = IF \A p \in WatchedPaths : pending[p] = None
               THEN [worker EXCEPT !.pc = "exit"]
               ELSE [worker EXCEPT !.pc = "sleep", !.wake = time + SleepTicks]
  /\ UNCHANGED <<pvars, stopper, svars, wvars, time, pending, sched, stop_event, burst, wpull,
                 nevents>>

\* the sleep is over
WorkerWake ==
  /\ worker.alive /\ worker.pc = "sleep"
  /\ time >= worker.wake
  /\ worker' = [worker EXCEPT !.pc = "loop"]
  /\ UNCHANGED <<pvars, stopper, svars, wvars, time, pending, sched, stop_event, burst, wpull,
                 nevents>>

\* _debounce_worker returns: the thread is no longer alive
WorkerExit ==
  /\ worker.alive /\ worker.pc = "exit"
  /\ worker' = [IdleWorker EXCEPT !.threads = worker.threads - 1]
  /\ UNCHANGED <<pvars, stopper, svars, wvars, time, pending, sched, stop_event, burst, wpull,
                 nevents>>

\* FileWatcherService.stop: the observer stops, then handler.stop() sets
\* stop_event and, if the worker is alive, begins join(timeout=5)
StopWatch ==
  /\ ~stop_event
  /\ sched = None
  /\ stop_event' = TRUE
  /\ stopper' = [stopper EXCEPT
                   !.pc = IF worker.alive THEN "joining" ELSE "returned",
                   !.deadline = time + JoinTicks,
                   !.inpass = worker.alive /\ worker.pc \in {"scan", "del", "sync"}]
  /\ UNCHANGED <<pvars, svars, wvars, time, pending, worker, sched, burst, wpull,
                 nevents>>

\* the join returns: the worker has ended, or the timeout has passed
StopReturn ==
  /\ stopper.pc = "joining"
  /\ ~worker.alive \/ time >= stopper.deadline
  /\ stopper' = [stopper EXCEPT !.pc = "returned", !.timedout = worker.alive]
  /\ UNCHANGED <<pvars, svars, wvars, time, pending, worker, sched, stop_event,
                 burst, wpull, nevents>>

NextWatch ==
  \/ Advance
  \/ \E path \in EventPaths, text \in WatchTexts : FileEvent(path, text)
  \/ \E path \in EventPaths : IgnoredEvent(path)
  \/ StartWorker
  \/ WorkerLoop
  \/ WorkerScan
  \/ WorkerDel
  \/ WorkerSync
  \/ WorkerCheck
  \/ WorkerWake
  \/ WorkerExit
  \/ StopWatch
  \/ StopReturn

SpecWatch == Init /\ [][NextWatch]_vars

\* nothing is running and the watch has not been stopped: without a further
\* event nothing more happens
Quiet == ~worker.alive /\ sched = None /\ ~stop_event

\* C2: a burst of events on one path, each less than the debounce interval
\* after the one before and followed by quiet, gets exactly one PullFromFile,
\* made when the last event is at least the debounce interval old.
C2_DebounceCoalescing ==
  /\ \A p \in WatchedPaths : burst[p].pulls <= 1
  /\ wpull.n > 0 => wpull.age >= DebounceTicks
  /\ Quiet => \A p \in WatchedPaths : burst[p].n >= 1 => burst[p].pulls = 1

WatcherPull ==
  /\ worker.alive /\ worker.pc = "sync"
  /\ worker.files_to_sync /= <<>>
  /\ worker'.files_to_sync /= worker.files_to_sync

InPass == worker.alive /\ worker.pc \in {"scan", "del", "sync"}

\* C14 as stated: once stop() has returned the watcher starts no pull and
\* the worker's pass is over; a pull begun after stop was requested belongs
\* to the pass the worker was executing then.
C14_ShutdownDropsPending ==
  /\ ~stopper.after
  /\ stopper.pc = "returned" => ~InPass
  /\ stopper.late => stopper.inpass

\* C14 amended: a pull begun after stop was requested belongs to the pass
\* the worker was executing then; stop() waits for that pass for at most
\* the join timeout; when the join did not time out the worker has ended and
\* no pull is begun after stop() returned, so what is pending stays pending.
C14_ShutdownDropsPendingIfJoined ==
  /\ stopper.late => stopper.inpass
  /\ stopper.after => stopper.timedout
  /\ stopper.timedout => time >= stopper.deadline
  /\ (stopper.pc = "returned" /\ ~stopper.timedout) => ~worker.alive

\* stop() has returned after the worker finished a pass with a pull in it,
\* and a path is still pending
C14_Witness ==
  /\ stopper.pc = "returned" /\ ~stopper.timedout
  /\ stopper.late
  /\ \E p \in WatchedPaths : pending[p] /= None

\* C20: a pending path always has something that will hand it to
\* PullFromFile without a further event: a live worker, or a _schedule_sync
\* about to start one (the watcher not being stopped).
C20_NoStrandedEntry ==
  \A p \in WatchedPaths :
    (pending[p] /= None /\ ~stop_event) => (worker.alive \/ sched /= None)

\* C21: whenever the worker takes a path off the pending map to hand it to
\* PullFromFile, the most recent event recorded for that path is at least
\* the debounce interval old at the moment of the removal, events being
\* recorded between the worker's check and its removal or not.
C21_QuiescenceBeforeSync ==
  (worker.alive /\ worker.pc = "del") =>
     LET file_path == Head(worker.snap)[1]
     IN  /\ pending[file_path] /= None
         /\ time - pending[file_path][1] >= DebounceTicks

\* C22: at most one debounce worker thread is alive; a worker comes alive
\* only in _schedule_sync of an event for a document path; a worker that
\* finds the pending map empty leaves its loop and ends.
C22_SingleWorker ==
  [][/\ worker'.threads <= 1
     /\ worker'.alive <=> worker'.threads = 1
     /\ (~worker.alive /\ worker'.alive) =>
           (sched /= None /\ _is_markdown_file(sched[1]))
     /\ (worker.pc = "check" /\ worker' /= worker
           /\ \A p \in WatchedPaths : pending[p] = None) => worker'.pc = "exit"
     /\ (worker.pc = "exit" /\ worker' /= worker) => ~worker'.alive]_vars

\* a second event of a burst was scheduled while the worker of the first
\* was alive, and there is one worker
C22_Witness ==
  /\ worker.alive /\ worker.threads = 1
  /\ sched = None
  /\ \E p \in WatchedPaths : burst[p].n = 2 /\ pending[p] /= None

(***************************************************************************)
(* The sync engine under faults: documents with shelves, pushes whose file *)
(* write or commit raises, and edits of a record through the UI.           *)
(***************************************************************************)
DuneShelved ==
  Doc(<< <<"title", Some("Dune")>>, <<"author", Some("Herbert")>>,
         <<"isbn13", Some("9780441013593")>>,
         <<"original_publication_year", Some("1965")>>,
         <<"rating", Some("5")>>,
         <<"shelves", Some(<<"fav", "scifi">>)>> >>,
      Some(<<"g">>), None, << <<"h">> >>)

\* the same shelf named twice
DuneDupShelves ==
  Doc(<< <<"title", Some("Dune")>>, <<"isbn13", Some("9780441013593")>>,
         <<"shelves", Some(<<"fav", "fav">>)>> >>,
      None, None, <<>>)

EngineFiles == {"dune.md"} \X {DuneShelved, DuneDupShelves, EmptyBlock}

EngineRows == {ImportedRow("Dune", None, Some("9780441013593"))}

FormAuthors == {"Frank Herbert"}

\* routes/books.py edit, lines 232-298: the form comes back as it was
\* displayed, with the author typed anew.  The columns, the reading record
\* and the review get the values they had; the associations are deleted and
\* added again in the order of the form.
edit(book, author) ==
  [book EXCEPT
     !.author = IF author = "" THEN None ELSE Some(author),
     !.book_shelves = [p \in 1..Len(@) |->
                         [shelf_id |-> @[p].shelf_id, position |-> p - 1]]]

\* routes/books.py edit: commit the form, then PushToFile
EditBook(book_id, author, fault) ==
  /\ nops < MaxOps
  /\ book_id \in 1..Len(books)
  /\ books[book_id].author /= Some(author)
  /\ \E committed \in {[books EXCEPT ![book_id] = edit(@, author)]} :
     \E r \in {sync_db_to_markdown(committed, shelves, files, book_id, now, fault)} :
         /\ books' = r.books
         /\ files' = r.files
         /\ last' = [NoCall EXCEPT !.op = "uiedit", !.path = r.filename,
                                   !.id = book_id, !.ok = r.ok,
                                   !.text = IF r.ok THEN r.files[r.filename] ELSE None,
                                   !.hash = IF r.ok THEN r.books[book_id].sync_hash
                                            ELSE None,
                                   !.at = now, !.n = nops + 1, !.fault = fault,
                                   !.before = committed]
  /\ prev' = last
  /\ nops' = nops + 1
  /\ UNCHANGED <<shelves, now, wvars, dvars, pvars>>

NextEngine ==
  \/ Tick
  \/ \E nt \in EngineFiles : ExternalEdit(nt[1], nt[2])
  \/ \E row \in EngineRows : ImportCsvRow(row)
  \/ \E path \in {"dune.md"} : Pull(path)
  \/ \E id \in 1..MaxBooks, fault \in Faults : Push(id, fault)
  \/ \E id \in 1..MaxBooks, author \in FormAuthors, fault \in Faults :
       EditBook(id, author, fault)

SpecEngine == Init /\ [][NextEngine]_vars

\* a step that is one call of PullFromFile or PushToFile
SyncStep ==
  /\ last'.n = last.n + 1
  /\ last'.op \in {"pull", "push", "uiedit"}

\* the table the call found: for the push of an edit, what the edit committed
TableBefore == IF last'.op = "uiedit" THEN last'.before ELSE books

\* C11: a PushToFile or PullFromFile that fails (record not found, parse
\* failure, file write error, constraint violation after a flush, failed
\* commit) returns False and leaves books and shelves as the call found them.
C11_FailureContainment ==
  [][(SyncStep /\ ~last'.ok) =>
       /\ books' = TableBefore
       /\ shelves' = shelves]_vars

\* a pull has failed after it had flushed the new book and its shelves
C11_Witness ==
  /\ last.op = "pull" /\ ~last.ok
  /\ last.md.ok /\ last.md.isdict
  /\ existing_book(last.before, to_db_models(last.md).book) = 0
  /\ InsertAllowed(last.before, to_db_models(last.md).book)
  /\ books = last.before

\* a push whose commit raised
CommitFails ==
  /\ SyncStep
  /\ last'.op \in {"push", "uiedit"}
  /\ last'.fault = "commit"
  /\ last'.id \in 1..Len(books)

\* what the push leaves when the commit raises: the file written, the
\* bookkeeping as it was, False returned
AsymmetryLeft ==
  LET i == last'.id
      f == _generate_filename(TableBefore[i].title[1])
  IN  /\ files'[f] = Some(Content(from_db_models(TableBefore[i], shelves, now)))
      /\ books'[i].sync_hash = TableBefore[i].sync_hash
      /\ books'[i].last_synced_at = TableBefore[i].last_synced_at
      /\ ~last'.ok

CodecMappings ==
  {<< <<"title", Some("Dune")>> >>,
   << <<"title", Some("Dune")>>, <<"author", None>>, <<"rating", Some("5")>> >>,
   << <<"rating", Some("5")>>, <<"title", Some("Emma")>>,
      <<"sync_hash", Some("abc")>>, <<"last_synced", Some("0")>> >>}

CodecReviews ==
  {None, Some(<<"g">>), Some(<<"g", "\n", "d">>), Some(<<" ", "g">>),
   Some(<<"g", "\n", HHighlights, "\n", "-", " ", "h">>)}

CodecNotes == {None, Some(<<"n">>), Some(<<"n", "\n", HReview, "\n", "x">>)}

CodecHighlights ==
  {<<>>, << <<"h">> >>, << <<"h">>, <<"i">> >>, << <<"h", "\n", "i">> >>}

CodecDocs ==
  {MarkdownBook(fm, r, n, hs, TRUE) :
     fm \in CodecMappings, r \in CodecReviews, n \in CodecNotes, hs \in CodecHighlights}

InitCodec ==
  /\ books = <<>>
  /\ shelves = <<>>
  /\ files = [f \in FileNames |-> None]
  /\ now = 0
  /\ last = NoCall
  /\ prev = NoCall
  /\ nops = 0
  /\ WriteIdle
  /\ WatchIdle
  /\ docs \in {<<D>> : D \in CodecDocs}
  /\ written = None
  /\ parsed = None
  /\ hashes = None
  /\ AppIdle

\* _write_markdown_file(file_path, docs[1]): the text of the file
WriteDoc ==
  /\ written = None
  /\ written' = Some(Content(docs[1]))
  /\ UNCHANGED <<svars, wvars, dvars, docs, parsed, hashes, race, app>>

\* _parse_markdown_file(file_path) of the file just written
ParseDoc ==
  /\ written /= None /\ parsed = None
  /\ parsed' = Some(_parse_markdown_file(written[1]))
  /\ UNCHANGED <<svars, wvars, dvars, docs, written, hashes, race, app>>

NextCodec == WriteDoc \/ ParseDoc

SpecCodec == InitCodec /\ [][NextCodec]_vars

\* the content fields of a document: the mapping without the bookkeeping
\* keys and without the keys whose value is null, and the three texts, an
\* absent text being the empty one
ContentFields(md) ==
  LET keys == {k \in Keys(md.frontmatter) \ SyncMetadata : Get(md.frontmatter, k) /= None}
  IN  [mapping |-> [k \in keys |-> Get(md.frontmatter, k)],
       review_text |-> IF md.review_text = None THEN <<>> ELSE md.review_text[1],
       highlights |-> md.highlights,
       private_notes |-> IF md.private_notes = None THEN <<>> ELSE md.private_notes[1]]

\* C15: for every document D with a non-empty title, parsing the file that
\* Write(D) produces yields a document equal to D on all content fields: the
\* same mapping, review text, highlight sequence and private notes.
C15_RoundTrip ==
  (parsed /= None /\ TruthyStr(Get(docs[1].frontmatter, "title"))) =>
     /\ parsed[1].ok
     /\ ContentFields(parsed[1]) = ContentFields(docs[1])

\* the part of C15 the codec does keep, for the record: the mapping always
\* comes back
C15_MappingComesBack ==
  parsed /= None =>
     ContentFields(parsed[1]).mapping = ContentFields(docs[1]).mapping

(***************************************************************************)
(* The hasher alone: _calculate_sync_hash on two documents drawn from      *)
(* HashDocs.                                                               *)
(***************************************************************************)
HashMappings ==
  {<< <<"title", Some("Dune")>>, <<"author", Some("Herbert")>> >>,
   << <<"author", Some("Herbert")>>, <<"title", Some("Dune")>> >>,
   << <<"title", Some("Dune")>>, <<"last_synced", Some("0")>>,
      <<"author", Some("Herbert")>>, <<"sync_hash", Some("abc")>> >>,
   << <<"title", Some("Dune")>>, <<"author", Some("Herbert")>>,
      <<"last_synced", Some("1")>>, <<"updated_at", Some("1")>> >>,
   << <<"title", Some("Dune")>>, <<"author", Some("F. Herbert")>> >>,
   << <<"title", Some("Dune")>>, <<"_review_text", Some("a")>> >>,
   << <<"title", Some("Dune")>>, <<"_review_text", Some("b")>> >>}

HashReviews == {None, Some(<<"g">>), Some(<<"g", "d">>)}
HashNotes == {None, Some(<<"n">>)}
HashHighlights == {<<>>, << <<"h">> >>, << <<"i">> >>, << <<"h">>, <<"i">> >>}

HashDocs ==
  {MarkdownBook(fm, r, n, hs, TRUE) :
     fm \in HashMappings, r \in HashReviews, n \in HashNotes, hs \in HashHighlights}

InitHash ==
  /\ books = <<>>
  /\ shelves = <<>>
  /\ files = [f \in FileNames |-> None]
  /\ now = 0
  /\ last = NoCall
  /\ prev = NoCall
  /\ nops = 0
  /\ WriteIdle
  /\ WatchIdle
  /\ docs \in {<<D1, D2>> : D1 \in HashDocs, D2 \in HashDocs}
  /\ written = None
  /\ parsed = None
  /\ hashes = None
  /\ AppIdle

\* _calculate_sync_hash(docs[1]) and _calculate_sync_hash(docs[2])
HashBoth ==
  /\ hashes = None
  /\ hashes' = Some(<<_calculate_sync_hash(docs[1]), _calculate_sync_hash(docs[2])>>)
  /\ UNCHANGED <<svars, wvars, dvars, docs, written, parsed, race, app>>

NextHash == HashBoth

SpecHash == InitHash /\ [][NextHash]_vars

\* what a fingerprint is to depend on: the mapping whatever its insertion
\* order, without the bookkeeping keys, and the three texts
DocContent(md) ==
  [mapping |-> [k \in Keys(md.frontmatter) \ SyncMetadata |-> Get(md.frontmatter, k)],
   review_text |-> IF md.review_text = None THEN <<>> ELSE md.review_text[1],
   highlights |-> md.highlights,
   private_notes |-> IF md.private_notes = None THEN <<>> ELSE md.private_notes[1]]

\* C16: the fingerprint depends only on the content: two documents of the
\* same content (whatever the insertion order of the structured fields and
\* the values of last_synced, sync_hash and updated_at) get the same
\* fingerprint, and two documents that differ in a structured value, the
\* review text, the private notes or a highlight get different ones.
C16_FingerprintDeterminism ==
  hashes /= None =>
     (hashes[1][1] = hashes[1][2] <=> DocContent(docs[1]) = DocContent(docs[2]))

\* the half of C16 the hasher keeps: the same content, the same fingerprint
C16_SameContentSameFingerprint ==
  (hashes /= None /\ DocContent(docs[1]) = DocContent(docs[2])) =>
     hashes[1][1] = hashes[1][2]

(***************************************************************************)
(* Claims about the update path of PullFromFile, checked under SpecEngine. *)
(***************************************************************************)
\* the shelf names of a record's associations, in position order
AssocNames(book, shs) ==
  [i \in 1..Len(book.book_shelves) |-> shs[book.book_shelves[i].shelf_id]]

\* the document's shelf list: frontmatter.get('shelves', [])
ShelfList(md) == GetD(md.frontmatter, "shelves", Some(<<>>))[1]

\* C17: after every successful PullFromFile, whether it created the record
\* or updated it, the record's shelf associations are exactly the names of
\* the document's shelf list.
C17_ShelfReplacement ==
  (last.op = "pull" /\ last.ok) =>
     AssocNames(books[last.id], shelves) = ShelfList(last.md)

\* what C17 says of the create path alone, which the code keeps
C17_ShelvesOnCreate ==
  (last.op = "pull" /\ last.ok /\ last.created) =>
     AssocNames(books[last.id], shelves) = ShelfList(last.md)

\* C18: after a successful PullFromFile that resolves to an existing record,
\* every content field of the record equals the value parsed from the file:
\* all book fields (identifiers, original publication year, cover reference
\* and date added included), the reading-status fields and the review fields
\* (highlights included), also when the record had no sub-record before.
C18_UpdateCopiesAll ==
  (last.op = "pull" /\ last.ok /\ ~last.created) =>
     LET m == to_db_models(last.md)
     IN  /\ \A i \in 1..Len(BookColumns) :
              books[last.id][BookColumns[i]] = m.book[BookColumns[i]]
         /\ books[last.id].reading_record = Some(m.reading_record)
         /\ books[last.id].review = Some(m.review)

\* the columns lines 491-496 do assign
C18_CopiedColumns ==
  (last.op = "pull" /\ last.ok /\ ~last.created) =>
     \A c \in {"title", "author", "publisher", "binding", "pages", "year_published"} :
        books[last.id][c] = to_db_models(last.md).book[c]

(***************************************************************************)
(* Claims about divergence after a sync, checked under SpecEngine.         *)
(***************************************************************************)
\* the call before the last one was a successful sync of a record
SyncedBefore ==
  /\ prev.op \in {"pull", "push", "uiedit"} /\ prev.ok
  /\ prev.id \in 1..Len(books)
  /\ prev.text /= None

\* since that sync only the file changed: an editor saved a document of
\* another content under the record's file name
FileEdited ==
  /\ SyncedBefore
  /\ last.op = "edit" /\ last.path = FileOf(prev.id)
  /\ Parses(files[last.path][1])
  /\ DocContent(_parse_markdown_file(files[last.path][1]))
       /= DocContent(_parse_markdown_file(prev.text[1]))

\* since that sync only the record changed: the form of the edit page was
\* committed and the push that follows it failed before it wrote the file
RecordEdited ==
  /\ SyncedBefore
  /\ last.op = "uiedit" /\ last.id = prev.id
  /\ ~last.ok /\ last.fault = "write"
  /\ files[FileOf(last.id)] = prev.text

\* C19: if after the last successful sync of a book exactly one side changes
\* its content (the file is edited and the record is not, or the record is
\* edited, the file is not and no push succeeds), the inventory classifies
\* the book hash_mismatch.
C19_DivergenceDetected ==
  (FileEdited \/ RecordEdited) =>
     \A inv \in Inventories : TypeOf(inv, prev.id) = "hash_mismatch"

(***************************************************************************)
(* _parse_markdown_sections alone, on bodies that hold the three headings  *)
(* in every order.                                                         *)
(***************************************************************************)
Headings == {HReview, HHighlights, HNotes}

\* every sequence of distinct headings
HeadingOrders ==
  {o \in UNION {[1..n -> Headings] : n \in 0..3} :
     \A i, j \in 1..Len(o) : o[i] = o[j] => i = j}

SectionTexts(h) ==
  CASE h = HReview -> {<<"g">>, <<"g", "\n", "d">>}
    [] h = HHighlights -> {<<"-", " ", "h">>,
                           <<"-", " ", "h", "\n", "x", "\n", "-", " ", "i">>}
    [] h = HNotes -> {<<"n">>, <<" ">>}

\* the bodies with the headings in order o, each followed by one of its texts
RECURSIVE BodiesOf(_)
BodiesOf(o) ==
  IF o = <<>> THEN {<<>>}
  ELSE {<<Head(o), "\n">> \o t \o <<"\n", "\n">> \o rest :
          t \in SectionTexts(Head(o)), rest \in BodiesOf(Tail(o))}

SectionBodies == UNION {BodiesOf(o) : o \in HeadingOrders}

InitSections ==
  /\ books = <<>>
  /\ shelves = <<>>
  /\ files = [f \in FileNames |-> None]
  /\ now = 0
  /\ last = NoCall
  /\ prev = NoCall
  /\ nops = 0
  /\ WriteIdle
  /\ WatchIdle
  /\ docs = <<>>
  /\ written \in {Some(FileText("mapping", << <<"title", Some("Dune")>> >>, <<"\n">> \o b)) :
                    b \in SectionBodies}
  /\ parsed = None
  /\ hashes = None
  /\ AppIdle

NextSections == ParseDoc

SpecSections == InitSections /\ [][NextSections]_vars

\* the text from just after heading h to the start of the next heading that
\* occurs later in the body, or to the end of the body, trimmed
Extracted(body, h) ==
  LET pos == Find(body, h)
      later == {q \in pos + 1..Len(body) : body[q] \in Headings}
  IN  Strip(SubSeq(body, pos + 1, IF later = {} THEN Len(body) ELSE Min(later) - 1))

\* C23: for every order of the headings found in a body, the text of each
\* found section runs from just after its heading to the start of the next
\* heading later in the body (or the end of the body), trimmed: the review,
\* the highlights (as the bullets of that text) and the private notes alike.
C23_SectionBoundaries ==
  parsed /= None =>
     LET body == Strip(written[1].body)
         text(h) == IF Find(body, h) = 0 THEN <<>> ELSE Extracted(body, h)
     IN  /\ parsed[1].review_text =
              (IF text(HReview) = <<>> THEN None ELSE Some(text(HReview)))
         /\ parsed[1].highlights = _parse_bullet_list(text(HHighlights))
         /\ parsed[1].private_notes =
              (IF text(HNotes) = <<>> THEN None ELSE Some(text(HNotes)))

\* what holds of the review and the highlights
C23_ReviewAndHighlights ==
  parsed /= None =>
     LET body == Strip(written[1].body)
         text(h) == IF Find(body, h) = 0 THEN <<>> ELSE Extracted(body, h)
     IN  /\ parsed[1].review_text =
              (IF text(HReview) = <<>> THEN None ELSE Some(text(HReview)))
         /\ parsed[1].highlights = _parse_bullet_list(text(HHighlights))

(***************************************************************************)
(* _parse_markdown_file alone, on files of every kind.                     *)
(***************************************************************************)
FileKinds ==
  {"nomarker", "unterminated", "yamlerror", "empty", "scalar", "list", "mapping"}

ParseTexts ==
  {FileText(k, IF k = "mapping" THEN << <<"title", Some("Dune")>> >> ELSE <<>>,
            <<"\n">> \o b) :
     k \in FileKinds, b \in UNION {BodiesOf(o) : o \in {<<>>, <<HReview, HNotes>>,
                                                         <<HHighlights>>,
                                                         <<HNotes, HHighlights>>}}}

InitParse ==
  /\ books = <<>>
  /\ shelves = <<>>
  /\ files = [f \in FileNames |-> None]
  /\ now = 0
  /\ last = NoCall
  /\ prev = NoCall
  /\ nops = 0
  /\ WriteIdle
  /\ WatchIdle
  /\ docs = <<>>
  /\ written \in {Some(t) : t \in ParseTexts}
  /\ parsed = None
  /\ hashes = None
  /\ AppIdle

NextParse == ParseDoc

SpecParse == InitParse /\ [][NextParse]_vars

\* C24: Parse returns null when the file does not begin with the marker,
\* when the block has no closing marker and when the block does not load to
\* a mapping (an empty block, a scalar, a list); a document it returns has a
\* mapping for its structured fields.
C24_ParseRejects ==
  parsed /= None =>
     /\ written[1].kind /= "mapping" => ~parsed[1].ok
     /\ parsed[1].ok => parsed[1].isdict

\* what holds: no marker, no closing marker, a YAML error
C24_RejectsUnreadable ==
  (parsed /= None /\ written[1].kind \in {"nomarker", "unterminated", "yamlerror"}) =>
     ~parsed[1].ok

(***************************************************************************)
(* The create path of PullFromFile on documents with shelf lists, in a     *)
(* store that may hold shelves already (routes/shelves.py creates them).   *)
(***************************************************************************)
ShelfLists ==
  {None, Some(<<>>), Some(<<"fav">>), Some(<<"fav", "scifi">>),
   Some(<<"scifi", "fav">>), Some(<<"fav", "fav">>)}

\* a mapping with the key shelves, or without it
WithShelves(fm, list) ==
  IF list = None THEN fm ELSE Append(fm, <<"shelves", list>>)

DuneOnShelves(list) ==
  Doc(WithShelves(<< <<"title", Some("Dune")>>, <<"isbn13", Some("9780441013593")>> >>,
                  list),
      None, None, <<>>)

EmmaOnShelves(list) ==
  Doc(WithShelves(<< <<"title", Some("Emma")>> >>, list), None, None, <<>>)

\* Shelf.name is unique
StoredShelves == {<<>>, <<"fav">>, <<"scifi", "fav">>, <<"classics">>}

InitShelves ==
  /\ books = <<>>
  /\ shelves \in StoredShelves
  /\ files \in {[f \in FileNames |->
                   CASE f = "dune.md" -> Some(DuneOnShelves(l1))
                     [] f = "emma.md" -> Some(EmmaOnShelves(l2))
                     [] OTHER -> None] : l1 \in ShelfLists, l2 \in ShelfLists}
  /\ now = 0
  /\ last = NoCall
  /\ prev = NoCall
  /\ nops = 0
  /\ WriteIdle
  /\ WatchIdle
  /\ PureIdle

NextShelves == \E path \in {"dune.md", "emma.md"} : Pull(path)

SpecShelves == InitShelves /\ [][NextShelves]_vars

\* the step is a successful PullFromFile that created a record
CreatingPull ==
  last'.n /= last.n /\ last'.op = "pull" /\ last'.ok /\ last'.created

ReviewOf(r, n, hs) ==
  [rating |-> Some("5"), review_text |-> r, private_notes |-> n,
   highlights |-> IF hs = <<>> THEN None ELSE Some(hs), is_spoiler |-> Some("False")]

PushRows ==
  {ImportedRow("Dune", None, Some("9780441013593"))}
    \cup {[ImportedRow("Dune", None, Some("9780441013593"))
             EXCEPT !.review = Some(ReviewOf(r, n, hs))] :
            r \in CodecReviews \cup {Some(<<"g", "\n">>)}, n \in CodecNotes,
            hs \in CodecHighlights}

InitPush ==
  /\ books \in {<<row>> : row \in PushRows}
  /\ shelves = <<>>
  /\ files = [f \in FileNames |-> None]
  /\ now = 0
  /\ last = NoCall
  /\ prev = NoCall
  /\ nops = 0
  /\ WriteIdle
  /\ WatchIdle
  /\ PureIdle

NextPush == Tick \/ Push(1, "none")

SpecPush == InitPush /\ [][NextPush]_vars

\* C26: after a successful PushToFile(id), the file and the record being as
\* the push left them, the sync_hash the push stored is the fingerprint of
\* the document parsed from the file it wrote, and the inventory classifies
\* the record in sync, whatever the review text, the private notes and the
\* highlights, with or without sub-records.
C26_PushLeavesInSync ==
  (last.op = "push" /\ last.ok /\ files[last.path] = last.text) =>
     /\ books[last.id].sync_hash =
          Fingerprint(_parse_markdown_file(files[last.path][1]))
     /\ \A inv \in Inventories : TypeOf(inv, last.id) = ""

(***************************************************************************)
(* A request's PushToFile(1) and the watcher's PullFromFile('dune.md') of  *)
(* the same book, one step at a time.  The book was pulled from its file;  *)
(* since then the edit form was committed (routes/books.py line 303, the   *)
(* push follows) and an editor saved the file (the debounce has run out).  *)
(* Each call has its own session; a commit writes the attributes the call  *)
(* set.                                                                    *)
(***************************************************************************)
RaceFiles == {DuneByIsbn13, DuneShelved}
RaceEdits == {DuneEdited, DuneShelved, DuneByIsbn13}
RaceAuthors == {"Frank Herbert", "F. H."}

\* the directory that holds text as dune.md
DuneFile(text) == [f \in FileNames |-> IF f = "dune.md" THEN Some(text) ELSE None]

\* the store after the pull of text into an empty store
PulledFrom(text) == sync_markdown_to_db(<<>>, <<>>, DuneFile(text), "dune.md", 0)

InitRace ==
  /\ \E f0 \in RaceFiles, e \in RaceEdits, author \in RaceAuthors :
       /\ e /= f0
       /\ \E r \in {PulledFrom(f0)} :
            \E bks \in {[r.books EXCEPT ![1] = edit(@, author)]} :
               /\ books = bks
               /\ shelves = r.shelves
               /\ files = DuneFile(e)
               /\ race = [push |-> [pc |-> "read", id |-> 1, md |-> NoBook,
                                    filename |-> ""],
                          pull |-> [pc |-> "parse", path |-> "dune.md", text |-> None],
                          books0 |-> bks,
                          files0 |-> DuneFile(e)]
  /\ now = 0
  /\ last = NoCall
  /\ prev = NoCall
  /\ nops = 0
  /\ WriteIdle
  /\ WatchIdle
  /\ docs = <<>>
  /\ written = None
  /\ parsed = None
  /\ hashes = None
  /\ app = NoApp

\* sync_db_to_markdown lines 192-206: the record is read and converted
PushRead ==
  /\ race.push.pc = "read"
  /\ \E md \in {from_db_models(books[race.push.id], shelves, now)} :
        race' = [race EXCEPT
                   !.push.pc = "write",
                   !.push.md = md,
                   !.push.filename = _generate_filename(books[race.push.id].title[1])]
  /\ UNCHANGED <<svars, wvars, dvars, docs, written, parsed, hashes, app>>

\* line 209: _write_markdown_file
PushWrite ==
  /\ race.push.pc = "write"
  /\ \E text \in {Content(race.push.md)} :
        files' = [files EXCEPT ![race.push.filename] = Some(text)]
  /\ race' = [race EXCEPT !.push.pc = "commit"]
  /\ UNCHANGED <<books, shelves, now, last, prev, nops, wvars, dvars, docs, written,
                 parsed, hashes, app>>

\* lines 212-215: sync_hash, last_synced_at, commit
PushCommit ==
  /\ race.push.pc = "commit"
  /\ \E h \in {_calculate_sync_hash(Written(race.push.md))} :
        books' = [books EXCEPT ![race.push.id].sync_hash = Some(h),
                               ![race.push.id].last_synced_at = Some(now)]
  /\ race' = [race EXCEPT !.push.pc = "done"]
  /\ UNCHANGED <<shelves, files, now, last, prev, nops, wvars, dvars, docs, written,
                 parsed, hashes, app>>

\* sync_markdown_to_db line 237: the file is read and parsed
PullParse ==
  /\ race.pull.pc = "parse"
  /\ race' = [race EXCEPT !.pull.pc = "commit", !.pull.text = files[race.pull.path]]
  /\ UNCHANGED <<svars, wvars, dvars, docs, written, parsed, hashes, app>>

\* lines 243-272: the lookup, the update or the insert, the commit, with the
\* document that was parsed
PullCommit ==
  /\ race.pull.pc = "commit"
  /\ \E r \in {sync_markdown_to_db(books, shelves,
                                   [files EXCEPT ![race.pull.path] = race.pull.text],
                                   race.pull.path, now)} :
        /\ books' = r.books
        /\ shelves' = r.shelves
  /\ race' = [race EXCEPT !.pull.pc = "done"]
  /\ UNCHANGED <<files, now, last, prev, nops, wvars, dvars, docs, written, parsed,
                 hashes, app>>

NextRace == PushRead \/ PushWrite \/ PushCommit \/ PullParse \/ PullCommit

SpecRace == InitRace /\ [][NextRace]_vars

\* the table and the directory after the push, then the pull
PushThenPull ==
  LET p == sync_db_to_markdown(race.books0, shelves, race.files0, 1, now, "none")
      l == sync_markdown_to_db(p.books, shelves, p.files, "dune.md", now)
  IN  <<l.books, p.files>>

\* the table and the directory after the pull, then the push
PullThenPush ==
  LET l == sync_markdown_to_db(race.books0, shelves, race.files0, "dune.md", now)
      p == sync_db_to_markdown(l.books, l.shelves, race.files0, 1, now, "none")
  IN  <<p.books, p.files>>

BothDone == race.push.pc = "done" /\ race.pull.pc = "done"

\* C27: every interleaving of the steps of a PushToFile(id) and of a
\* PullFromFile of the same book's file ends in a state that one of the two
\* serial orders produces.
C27_Serializable ==
  BothDone => <<books, files>> \in {PushThenPull, PullThenPush}

\* at the end the record holds the editor's text, the file the form's, and
\* the inventory says in sync
C27_LostEditInSync ==
  /\ BothDone
  /\ files["dune.md"] /= race.files0["dune.md"]
  /\ books[1].author /= race.books0[1].author
  /\ \A inv \in Inventories : TypeOf(inv, 1) = ""

(***************************************************************************)
(* The life of the watch in the web server: app.py init_app_watcher,       *)
(* init_file_watcher with the teardown it registers, and                   *)
(* FileWatcherService.start, stop and is_running.                          *)
(***************************************************************************)
MaxRequests == 3
MaxAppEvents == 2

\* FileWatcherService.is_running
is_running(a) == a.observer = "alive"

\* FileWatcherService.start, called where MarkdownSyncService() can be
\* constructed: nothing while the observer is alive, a new observer and a
\* new handler otherwise
start(a) ==
  IF a.observer = "alive"
  THEN a
  ELSE [a EXCEPT !.observer = "alive", !.observers = a.observers + 1,
                 !.watched = TRUE, !.explicit = FALSE]

\* FileWatcherService.stop: the observer is stopped and joined, the handler
\* stopped
stop(a) ==
  IF a.observer = "none"
  THEN a
  ELSE [a EXCEPT !.observer = "stopped",
                 !.observers = IF a.observer = "alive" THEN a.observers - 1
                               ELSE a.observers]

\* shutdown_watcher, the function init_file_watcher registers with
\* app.teardown_appcontext; it runs whenever an application context is popped
shutdown_watcher(a) == IF a.created THEN stop(a) ELSE a

InitApp ==
  /\ Init
  /\ app = NoApp

\* app.py lines 55-56 and init_file_watcher: the context is pushed, the
\* service made, the thread started, the teardown registered
init_file_watcher ==
  /\ ~app.created
  /\ app' = [app EXCEPT !.created = TRUE, !.start = "pending", !.context = TRUE]
  /\ UNCHANGED <<svars, wvars, dvars, docs, written, parsed, hashes, race>>

\* the thread of line 211 runs start().  current_app is bound per thread:
\* MarkdownSyncService() (markdown_sync_service.py line 177) raises in a
\* thread that has no application context and is constructed in one that
\* inherits the context of the thread that started it.
WatcherThread ==
  /\ app.start = "pending"
  /\ \/ app' = [app EXCEPT !.start = "raised"]
     \/ app' = [start(app) EXCEPT !.start = "done"]
  /\ UNCHANGED <<svars, wvars, dvars, docs, written, parsed, hashes, race>>

\* app.py line 55: the with block ends, the context is popped
ExitInitContext ==
  /\ app.context
  /\ app' = [shutdown_watcher(app) EXCEPT !.context = FALSE]
  /\ UNCHANGED <<svars, wvars, dvars, docs, written, parsed, hashes, race>>

\* the server takes a request: an application context is pushed
RequestBegin ==
  /\ app.created
  /\ ~app.context
  /\ ~app.inreq
  /\ app.requests < MaxRequests
  /\ app' = [app EXCEPT !.inreq = TRUE]
  /\ UNCHANGED <<svars, wvars, dvars, docs, written, parsed, hashes, race>>

\* the request completes: its application context is popped
RequestEnd ==
  /\ app.inreq
  /\ app' = [shutdown_watcher(app) EXCEPT !.inreq = FALSE,
                                         !.requests = app.requests + 1]
  /\ UNCHANGED <<svars, wvars, dvars, docs, written, parsed, hashes, race>>

\* get_file_watcher().start() from code that serves a request
CallStart ==
  /\ app.created
  /\ app.inreq
  /\ app.start /= "pending"
  /\ app' = start(app)
  /\ UNCHANGED <<svars, wvars, dvars, docs, written, parsed, hashes, race>>

\* get_file_watcher().stop(): the explicit shutdown
Shutdown ==
  /\ app.created
  /\ ~app.explicit
  /\ app.start /= "pending"
  /\ app' = [stop(app) EXCEPT !.explicit = TRUE]
  /\ UNCHANGED <<svars, wvars, dvars, docs, written, parsed, hashes, race>>

\* a markdown file of the directory is saved: the observer dispatches the
\* event to the handler if it is alive, nobody sees it otherwise
AppFileEvent ==
  /\ app.events < MaxAppEvents
  /\ IF is_running(app)
     THEN app' = [app EXCEPT !.events = app.events + 1]
     ELSE /\ app.watched
          /\ ~app.explicit
          /\ ~app.lost
          /\ app' = [app EXCEPT !.lost = TRUE]
  /\ UNCHANGED <<svars, wvars, dvars, docs, written, parsed, hashes, race>>

NextApp ==
  \/ init_file_watcher
  \/ WatcherThread
  \/ ExitInitContext
  \/ RequestBegin
  \/ RequestEnd
  \/ CallStart
  \/ Shutdown
  \/ AppFileEvent

SpecApp == InitApp /\ [][NextApp]_vars

\* C28: once the watch has been started it keeps running and keeps
\* recording file events through every application-context teardown, until
\* an explicit shutdown; and no more than one observer is alive at a time.
C28_WatchOutlivesRequests ==
  /\ app.observers <= 1
  /\ (app.watched /\ ~app.explicit) => (is_running(app) /\ ~app.lost)

\* no more than one observer is alive, whatever calls start()
C28_OneInstance == app.observers <= 1

\* a request completed, nobody shut the watch down, and it is not running
C28_StoppedByRequest ==
  /\ app.watched
  /\ ~app.explicit
  /\ app.requests >= 1
  /\ ~is_running(app)
  /\ app.lost

(***************************************************************************)
(* PullFromFile of files whose name is, or is not, the slug of their       *)
(* title: a document saved under a name of the user's choosing, and a      *)
(* document whose title was edited in place.                               *)
(***************************************************************************)
\* dune.md after the editor changed its title
DuneRetitled ==
  Doc(<< <<"title", Some("Emma")>>, <<"author", Some("Herbert")>>,
         <<"isbn13", Some("9780441013593")>> >>,
      Some(<<"g">>), None, <<>>)

NamedTexts == {DuneByIsbn13, DuneRetitled, EmmaNoIsbn}

InitNames ==
  /\ books = <<>>
  /\ shelves = <<>>
  /\ files \in [FileNames -> {None} \cup {Some(t) : t \in NamedTexts}]
  /\ now = 0
  /\ last = NoCall
  /\ prev = NoCall
  /\ nops = 0
  /\ WriteIdle
  /\ WatchIdle
  /\ PureIdle

NextNames == \E path \in FileNames : Pull(path)

SpecNames == InitNames /\ [][NextNames]_vars

\* C29: after a successful PullFromFile(path) the derived filename of the
\* record it resolved to is path, so that the inventories neither list the
\* file as an orphan nor the record as missing its file.
C29_PulledFileBelongs ==
  (last.op = "pull" /\ last.ok) =>
     /\ FileOf(last.id) = last.path
     /\ \A inv \in Inventories :
          /\ OrphanEntries(inv, last.path) = {}
          /\ TypeOf(inv, last.id) /= "missing_markdown"

\* the pull of a file named by the slug of its title leaves it with its record
C29_SlugNamedFileBelongs ==
  (last.op = "pull" /\ last.ok /\ last.path = _generate_filename(last.md.frontmatter[1][2][1])) =>
     /\ FileOf(last.id) = last.path
     /\ \A inv \in Inventories :
          /\ OrphanEntries(inv, last.path) = {}
          /\ TypeOf(inv, last.id) /= "missing_markdown"

\* a record was created from unrelated-notes.md, the file is listed as an
\* orphan and the record as missing its file
C29_OrphanedAfterPull ==
  /\ last.op = "pull" /\ last.ok /\ last.created
  /\ last.path = "unrelated-notes.md"
  /\ \A inv \in Inventories :
       /\ OrphanEntries(inv, last.path) /= {}
       /\ TypeOf(inv, last.id) = "missing_markdown"

(***************************************************************************)
(* ComputeStatus over every store and directory the operations reach.      *)
(***************************************************************************)
\* the entries an inventory holds for record i
RecordEntries(inv, i) == {k \in 1..Len(inv.statuses) : inv.statuses[k].book_id = i}

\* the files whose name is the derived filename of no record
OrphanedFiles == {f \in FileNames : Exists(files, f) /\ \A i \in 1..Len(books) : FileOf(i) /= f}

\* C30: ComputeStatus completes without raising, whatever the records and
\* the directory hold, and yields one status for every record and one for
\* every orphaned file, and nothing else.
C30_InventoryTotal ==
  \A inv \in Inventories :
    /\ ~inv.raised
    /\ \A i \in 1..Len(books) : Cardinality(RecordEntries(inv, i)) = 1
    /\ Len(inv.statuses) = Len(books) + Cardinality(OrphanedFiles)

\* an inventory that completes holds one status for every record and one
\* for every orphaned file
C30_TotalUnlessRaised ==
  \A inv \in Inventories :
    ~inv.raised =>
      /\ \A i \in 1..Len(books) : Cardinality(RecordEntries(inv, i)) = 1
      /\ Len(inv.statuses) = Len(books) + Cardinality(OrphanedFiles)

\* both inventories raise over a record whose file has an empty metadata block
C30_BothRaise ==
  /\ \A inv \in Inventories : inv.raised
  /\ \E i \in 1..Len(books) :
       /\ Exists(files, FileOf(i))
       /\ files[FileOf(i)][1].kind = "empty"

====
